---- MODULE Spec2Model ----
(***************************************************************************)
(* Model of src/ota_model.py: the Platform event loop with its timer       *)
(* registry and elapsed clock, and the OtaRequestor state machine.         *)
(*                                                                         *)
(* Times are in milliseconds.  The wall clock `now` is what                *)
(* int(time.time() * 1000.0) returns; it advances in steps of the dequeue  *)
(* timeout.  Fields named req, poster and id, and the variables whose      *)
(* names end in "log", and called, processed, fired_reqs, last_call,       *)
(* last_proc, last_scan, last_ff, last_replaced and stop_id, are history   *)
(* (ghost) state: the code does not hold them, they record what the code   *)
(* did.  scans holds the local variables of process_timers.                *)
(***************************************************************************)
EXTENDS Integers, Sequences, FiniteSets, TLC

VARIABLES
  queue,         \* Platform._queue: the events not yet dequeued
  last_time_ms,  \* Platform._last_time_ms
  elapsed_ms,    \* Platform._elapsed_ms
  timers,        \* Platform._timers: list of {deadline, callback, context}
  running,       \* Platform._running
  now,           \* the wall clock in ms
  pc,            \* where the loop thread is in run_event_loop
  cur,           \* the event the loop thread dequeued in this iteration
  posted,        \* number of events put in the queue so far (next event id)
  app_posts,     \* number of calls made by the non-loop threads so far
  last_call,     \* per timer identity, id of the latest start_timer call
  last_proc,     \* per timer identity, id of the latest request the loop applied
  hlog,          \* (poster, id) of the events given to the event handler, in order
  called,        \* (id, callback, context) of the callbacks the handler invoked, in order
  processed,     \* ids of the events the loop has handled or applied
  fired_reqs,    \* per timer callback invocation, the id of the request that armed it
  ilog,          \* set of (thread, kind, during) of handler invocations
  last_scan,     \* what the scan ending the current loop iteration saw and did
  last_ff,       \* what the fast_forward_clock_for_testing call of this iteration did
  stop_id,       \* id of the shutdown sentinel that stopped the loop
  last_replaced, \* the entry that the start-timer handling of this iteration overwrote
  scans,         \* per thread, the locals of the process_timers call it is running
  tpc,           \* position of the scripted test thread (replacement scenario)
  obs,           \* what the scripted test thread observed
  state,         \* OtaRequestor._state
  fn_attr,       \* attributes set on the functions current_thread, main_thread
  rlog,          \* calls made on the requestor, in order
  ota_context    \* the requestor's _ota_context: <<c>>, or <<>> when the object has none

platform_vars == <<queue, last_time_ms, elapsed_ms, timers, running, now, pc, cur,
                   posted, app_posts, last_call, last_proc, hlog, called, processed,
                   fired_reqs, ilog,
                   last_scan, last_ff, stop_id, last_replaced, scans>>
script_vars == <<tpc, obs>>
requestor_vars == <<state, fn_attr, rlog, ota_context>>
vars == <<platform_vars, script_vars, requestor_vars>>

-----------------------------------------------------------------------------
(* Bounds of the model and constants of the program *)

MaxPosts == 3          \* calls made by the application thread
MaxWorkerPosts == 1    \* events posted by the second non-loop thread
MaxTicks == 2          \* wall-clock steps
WallStart == 5000      \* wall clock when the Platform is constructed
MaxCalls == 3          \* call-ins made on the requestor
ScenarioMaxTicks == 2  \* wall-clock steps during the replacement scenario

DequeueTimeoutMs == 100   \* queue.get(block=True, timeout=0.1): 0.1 s
RearmExpiryMs == 2000     \* timer_callback: start_timer(expiry_ms=2000, ...)
Timer1ExpiryMs == 1000    \* run_ota_process: start_timer(expiry_ms=1000, ...)

LoopThread == "event_loop"
AppThread == "app"
WorkerThread == "worker"

Expiries == {0, 100, 200}
FastForwards == {100, 2000}
TimerIds == {<<"cb1", "ctx1">>, <<"cb1", "ctx2">>}
AllTimerIds == TimerIds \cup {<<"timer_callback", "Timer1">>, <<"timer_callback", "TimerN">>}

-----------------------------------------------------------------------------
(* Events *)

Event(type, expiry_ms, callback, context) ==
  [type |-> type, expiry_ms |-> expiry_ms, callback |-> callback, context |-> context]

StartTimerEvent(expiry_ms, callback, context) ==
  Event("StartTimerEvent", expiry_ms, callback, context)

\* A RunWorkEvent whose callback calls fast_forward_clock_for_testing carries
\* the number of ms in expiry_ms.
RunWorkEvent(callback, context, ms) == Event("RunWorkEvent", ms, callback, context)

TimerDoneEvent(callback, context) == Event("TimerDoneEvent", 0, callback, context)

BlockReceivedEvent == Event("BlockReceivedEvent", 0, "none", "none")

\* post_event(None): the shutdown sentinel
Sentinel == Event("None", 0, "none", "none")

NoEvent == Event("Empty", 0, "none", "none")

Tag(ev, poster, id) ==
  [type |-> ev.type, expiry_ms |-> ev.expiry_ms, callback |-> ev.callback,
   context |-> ev.context, poster |-> poster, id |-> id]

-----------------------------------------------------------------------------
(* Platform: pure parts *)

SetMin(S) == CHOOSE x \in S : \A y \in S : x <= y

Reversed(s) == [i \in 1..Len(s) |-> s[Len(s) + 1 - i]]

QueuePutFront(q, ev) == <<ev>> \o q

\* post_event: self._queue.put(event)
QueuePut(q, ev) == Append(q, ev)

\* the events of evs put one after the other by thread t, ids from id on
RECURSIVE PutAll(_, _, _, _)
PutAll(q, evs, t, id) ==
  IF evs = <<>> THEN q
  ELSE PutAll(QueuePut(q, Tag(Head(evs), t, id)), Tail(evs), t, id + 1)

UpdateClockingStale(e, l, n) == [elapsed |-> e, last |-> l]

UpdateClockingDelta(e, l, n) == [elapsed |-> n - l, last |-> n]

\* update_clocking: the new _elapsed_ms and _last_time_ms
UpdateClocking(e, l, n) == [elapsed |-> e + (n - l), last |-> n]

FindTimerByCallback(ts, callback, context) ==
  LET m == {i \in DOMAIN ts : ts[i].callback = callback}
  IN  IF m = {} THEN 0 ELSE SetMin(m)

\* _find_timer: index of the first entry with this identity, 0 for None
FindTimer(ts, callback, context) ==
  LET m == {i \in DOMAIN ts : ts[i].callback = callback /\ ts[i].context = context}
  IN  IF m = {} THEN 0 ELSE SetMin(m)

TimerEntry(deadline, callback, context, req) ==
  [deadline |-> deadline, callback |-> callback, context |-> context, req |-> req]

UpsertTimerAppend(ts, e, ev) ==
  Append(ts, TimerEntry(e + ev.expiry_ms, ev.callback, ev.context, ev.id))

\* _handle_start_timer after update_clocking: e is the refreshed _elapsed_ms
UpsertTimer(ts, e, ev) ==
  LET entry == TimerEntry(e + ev.expiry_ms, ev.callback, ev.context, ev.id)
      idx == FindTimer(ts, ev.callback, ev.context)
  IN  IF idx = 0 THEN Append(ts, entry) ELSE [ts EXCEPT ![idx] = entry]

IsExpiredEarly(timer, e) == e + DequeueTimeoutMs >= timer.deadline

\* process_timers: if self._elapsed_ms >= timer["deadline"]
IsExpired(timer, e) == e >= timer.deadline

\* process_timers: to_delete, the indices of the expired entries in list order
ToDelete(ts, e) ==
  SelectSeq([i \in 1..Len(ts) |-> i], LAMBDA i : IsExpired(ts[i], e))

\* del self._timers[idx]; an index out of range raises IndexError and leaves
\* the list as it is
DeleteAt(ts, idx) ==
  IF idx \in DOMAIN ts
  THEN SubSeq(ts, 1, idx - 1) \o SubSeq(ts, idx + 1, Len(ts))
  ELSE ts

RECURSIVE DeleteEach(_, _)
DeleteEach(ts, idxs) ==
  IF idxs = <<>> THEN ts ELSE DeleteEach(DeleteAt(ts, Head(idxs)), Tail(idxs))

DeleteExpiredForward(ts, to_delete) == DeleteEach(ts, to_delete)

DeleteExpiredClear(ts, to_delete) == <<>>

\* process_timers: for idx in reversed(to_delete): del self._timers[idx]
DeleteExpired(ts, to_delete) == DeleteEach(ts, Reversed(to_delete))

\* what a callback posts when it is invoked: run_ota_process.timer_callback
\* re-arms itself with context "TimerN"; the other callbacks post nothing
CallbackPosts(callback, context) ==
  IF callback = "timer_callback"
  THEN <<StartTimerEvent(RearmExpiryMs, "timer_callback", "TimerN")>>
  ELSE <<>>

RECURSIVE PostsOf(_)
PostsOf(entries) ==
  IF entries = <<>> THEN <<>>
  ELSE CallbackPosts(Head(entries).callback, Head(entries).context)
         \o PostsOf(Tail(entries))

RECURSIVE IterateDeleting(_, _, _, _)
IterateDeleting(ts, e, idx, fired) ==
  IF idx > Len(ts) THEN [timers |-> ts, fired |-> fired]
  ELSE IF IsExpired(ts[idx], e)
  THEN IterateDeleting(DeleteAt(ts, idx), e, idx + 1, Append(fired, ts[idx]))
  ELSE IterateDeleting(ts, e, idx + 1, fired)

ProcessTimersDeletingInLoop(ts, e, l, n, q, id, t) ==
  LET clk == UpdateClocking(e, l, n)
      r == IterateDeleting(ts, clk.elapsed, 1, <<>>)
      posts == PostsOf(r.fired)
  IN  [elapsed |-> clk.elapsed, last |-> clk.last, timers |-> r.timers,
       queue |-> PutAll(q, posts, t, id), posted |-> id + Len(posts),
       before |-> ts, fired |-> r.fired]

ProcessTimersViaQueue(ts, e, l, n, q, id, t) ==
  LET clk == UpdateClocking(e, l, n)
      to_delete == ToDelete(ts, clk.elapsed)
      fired == [i \in 1..Len(to_delete) |-> ts[to_delete[i]]]
      posts == [i \in 1..Len(fired) |->
                  TimerDoneEvent(fired[i].callback, fired[i].context)]
  IN  [elapsed |-> clk.elapsed, last |-> clk.last,
       timers |-> DeleteExpired(ts, to_delete),
       queue |-> PutAll(q, posts, t, id), posted |-> id + Len(posts),
       before |-> ts, fired |-> fired]

RECURSIVE UpsertAll(_, _, _, _, _)
UpsertAll(ts, e, evs, t, id) ==
  IF evs = <<>> THEN ts
  ELSE UpsertAll(UpsertTimer(ts, e, Tag(Head(evs), t, id)), e, Tail(evs), t, id + 1)

ProcessTimersSyncRearm(ts, e, l, n, q, id, t) ==
  LET clk == UpdateClocking(e, l, n)
      to_delete == ToDelete(ts, clk.elapsed)
      fired == [i \in 1..Len(to_delete) |-> ts[to_delete[i]]]
      posts == PostsOf(fired)
  IN  [elapsed |-> clk.elapsed, last |-> clk.last,
       timers |-> DeleteExpired(UpsertAll(ts, clk.elapsed, posts, t, id), to_delete),
       queue |-> q, posted |-> id + Len(posts),
       before |-> ts, fired |-> fired]

\* process_timers run by thread t with the wall clock at n: the new clock,
\* registry and queue, and the entries whose callbacks it invoked, in order
ProcessTimers(ts, e, l, n, q, id, t) ==
  LET clk == UpdateClocking(e, l, n)
      to_delete == ToDelete(ts, clk.elapsed)
      fired == [i \in 1..Len(to_delete) |-> ts[to_delete[i]]]
      posts == PostsOf(fired)
  IN  [elapsed |-> clk.elapsed, last |-> clk.last,
       timers |-> DeleteExpired(ts, to_delete),
       queue |-> PutAll(q, posts, t, id), posted |-> id + Len(posts),
       before |-> ts, fired |-> fired]

FastForwardAssign(ts, e, l, n, q, id, t, num_ms) ==
  LET r == ProcessTimers(ts, e, l, n, q, id, t)
  IN  [elapsed |-> num_ms, last |-> n, timers |-> r.timers,
       queue |-> r.queue, posted |-> r.posted, before |-> ts,
       fired |-> r.fired, flushed_at |-> r.elapsed]

FastForwardJumpFirst(ts, e, l, n, q, id, t, num_ms) ==
  LET r == ProcessTimers(ts, e + num_ms, l, n, q, id, t)
  IN  [elapsed |-> r.elapsed, last |-> n, timers |-> r.timers,
       queue |-> r.queue, posted |-> r.posted, before |-> ts,
       fired |-> r.fired, flushed_at |-> r.elapsed]

\* fast_forward_clock_for_testing(num_ms) run by thread t
FastForward(ts, e, l, n, q, id, t, num_ms) ==
  LET r == ProcessTimers(ts, e, l, n, q, id, t)
  IN  [elapsed |-> r.elapsed + num_ms, last |-> n, timers |-> r.timers,
       queue |-> r.queue, posted |-> r.posted, before |-> ts,
       fired |-> r.fired, flushed_at |-> r.elapsed]

-----------------------------------------------------------------------------
(* History records *)

\* one record per callback a scan invoked, with the latest start_timer call
\* and the latest applied request of its identity at that time
FireRecords(fired) ==
  [i \in 1..Len(fired) |->
     [callback |-> fired[i].callback, context |-> fired[i].context,
      req |-> fired[i].req, deadline |-> fired[i].deadline,
      latest_call |-> last_call[<<fired[i].callback, fired[i].context>>],
      latest_proc |-> last_proc[<<fired[i].callback, fired[i].context>>]]]

Reqs(fired) == [i \in 1..Len(fired) |-> fired[i].req]

NoScan ==
  [valid |-> FALSE, thread |-> "none", at |-> 0, elapsed |-> 0, before |-> <<>>,
   fired |-> <<>>, after |-> <<>>, queue_before |-> <<>>, queue_after |-> <<>>,
   after_ff |-> FALSE]

ScanRecord(r, t, n, q, after_ff) ==
  [valid |-> TRUE, thread |-> t, at |-> n, elapsed |-> r.elapsed, before |-> r.before,
   fired |-> FireRecords(r.fired), after |-> r.timers, queue_before |-> q,
   queue_after |-> r.queue, after_ff |-> after_ff]

NoFastForward ==
  [valid |-> FALSE, thread |-> "none", at |-> 0, num_ms |-> 0, elapsed_before |-> 0,
   last_before |-> 0, flushed_at |-> 0, elapsed_after |-> 0, last_after |-> 0,
   before |-> <<>>, fired |-> <<>>, after |-> <<>>]

FastForwardRecord(r, t, n, e, l, num_ms) ==
  [valid |-> TRUE, thread |-> t, at |-> n, num_ms |-> num_ms, elapsed_before |-> e,
   last_before |-> l, flushed_at |-> r.flushed_at, elapsed_after |-> r.elapsed,
   last_after |-> r.last, before |-> r.before, fired |-> FireRecords(r.fired),
   after |-> r.timers]

\* the locals of process_timers, and num_ms of the fast-forward calling it
NoScanLocals == [phase |-> "idle", idx |-> 1, to_delete |-> <<>>, num_ms |-> 0]

NoReplaced == [valid |-> FALSE, req |-> -1, deadline |-> 0, due |-> FALSE]

\* the entry that applying the request ev at elapsed time e overwrites, and
\* whether its deadline was reached by then
Replaced(ts, e, ev) ==
  LET idx == FindTimer(ts, ev.callback, ev.context)
  IN  IF idx = 0 THEN NoReplaced
      ELSE [valid |-> TRUE, req |-> ts[idx].req, deadline |-> ts[idx].deadline,
            due |-> ts[idx].deadline <= e]

\* the invocations a scan on thread t makes, for ilog; during is the set of
\* threads that have a handler invocation in progress meanwhile
TimerInvocations(fired, t, during) ==
  IF fired = <<>> THEN {} ELSE {[thread |-> t, kind |-> "timer", during |-> during]}

InHandler == IF pc = "handler" THEN {LoopThread} ELSE {}

-----------------------------------------------------------------------------
(* Initial state: Platform.__init__, OtaRequestor.__init__ *)

STATE_IDLE == 0
STATE_ESTABLISHING_PROVIDER_CONNECTION == 7

\* class Status(IntEnum)
NO_ERROR == 0
INVALID_STATE == 1
RESOURCES_EXHAUSTED == 2
Status == {NO_ERROR, INVALID_STATE, RESOURCES_EXHAUSTED}

\* OtaContext.__init__: the fresh default context
OtaContext ==
  [in_progress |-> FALSE, provider_node_id |-> 0, download_node_id |-> 0,
   fabric_index |-> 0, file_designator |-> ""]

\* a context that a driver's load_stored_ota_context fills in: an OTA that
\* was going on when it was stored
OngoingContext ==
  [in_progress |-> TRUE, provider_node_id |-> 1234, download_node_id |-> 1234,
   fabric_index |-> 1, file_designator |-> "image.ota"]


InitPlatform ==
  /\ queue = <<>>
  /\ last_time_ms = 0
  /\ elapsed_ms = 0
  /\ timers = <<>>
  /\ running = TRUE
  /\ now = WallStart
  /\ pc = "init"
  /\ cur = Tag(NoEvent, "none", -1)
  /\ posted = 0
  /\ app_posts = [t \in {AppThread, WorkerThread} |-> 0]
  /\ last_call = [k \in AllTimerIds |-> -1]
  /\ last_proc = [k \in AllTimerIds |-> -1]
  /\ hlog = <<>>
  /\ called = <<>>
  /\ processed = {}
  /\ fired_reqs = <<>>
  /\ ilog = {}
  /\ last_scan = NoScan
  /\ last_ff = NoFastForward
  /\ stop_id = -1
  /\ last_replaced = NoReplaced
  /\ scans = [t \in {LoopThread, AppThread} |-> NoScanLocals]
  /\ tpc = 0
  /\ obs = <<>>
  /\ fn_attr = [f \in {"current_thread", "main_thread"} |-> "unset"]
  /\ rlog = <<>>

\* OtaRequestor.__init__ sets _state and does not call
\* OtaRequestorInterface.__init__: the object has no _ota_context
Init ==
  /\ InitPlatform
  /\ state = STATE_IDLE
  /\ ota_context = <<>>

\* OtaRequestorInterface.__init__: an object of the interface class itself
\* has a fresh _ota_context (and no _state, which stays as it is here)
InitInterface ==
  /\ InitPlatform
  /\ state = STATE_IDLE
  /\ ota_context = <<OtaContext>>

-----------------------------------------------------------------------------
(* Calls made by threads other than the loop thread *)

loop_vars == <<last_time_ms, elapsed_ms, timers, running, now, pc, cur, last_proc,
               hlog, called, processed, fired_reqs, ilog, last_scan, last_ff, stop_id,
               last_replaced, scans>>

\* post_event(event) called by thread t
Post(t, ev) ==
  /\ queue' = QueuePut(queue, Tag(ev, t, posted))
  /\ posted' = posted + 1
  /\ last_call' = IF ev.type = "StartTimerEvent"
                  THEN [last_call EXCEPT ![<<ev.callback, ev.context>>] = posted]
                  ELSE last_call

Budget(t) == IF t = AppThread THEN MaxPosts ELSE MaxWorkerPosts

AppCall(t, ev) ==
  /\ app_posts[t] < Budget(t)
  /\ app_posts' = [app_posts EXCEPT ![t] = @ + 1]
  /\ Post(t, ev)
  /\ UNCHANGED <<loop_vars, script_vars, requestor_vars>>

\* start_timer
StartTimer(t, expiry_ms, callback, context) ==
  AppCall(t, StartTimerEvent(expiry_ms, callback, context))

\* schedule_work
ScheduleWork(t, callback, context, ms) == AppCall(t, RunWorkEvent(callback, context, ms))

\* post_event with an event of another kind
PostEvent(t, ev) == AppCall(t, ev)

ShutdownDirect(t) ==
  /\ app_posts[t] < Budget(t)
  /\ app_posts' = [app_posts EXCEPT ![t] = @ + 1]
  /\ running' = FALSE
  /\ UNCHANGED <<queue, posted, last_call, last_time_ms, elapsed_ms, timers, now, pc,
                 cur, last_proc, hlog, called, processed, fired_reqs, ilog, last_scan,
                 last_ff, stop_id, last_replaced, scans, script_vars, requestor_vars>>

\* shutdown
Shutdown(t) == AppCall(t, Sentinel)

-----------------------------------------------------------------------------
(* The loop thread: run_event_loop *)

post_vars == <<app_posts, last_call>>

TimeLimit == WallStart + MaxTicks * DequeueTimeoutMs

\* self._last_time_ms = int(time.time() * 1000.0)
LoopStart ==
  /\ pc = "init"
  /\ last_time_ms' = now
  /\ pc' = "get"
  /\ UNCHANGED <<queue, elapsed_ms, timers, running, now, cur, posted, post_vars,
                 last_proc, hlog, called, processed, fired_reqs, ilog, last_scan, last_ff,
                 stop_id, last_replaced, scans, script_vars, requestor_vars>>

LoopGetIgnoresSentinel ==
  /\ pc = "get"
  /\ IF ~running
     THEN /\ pc' = "stopped"
          /\ UNCHANGED <<queue, cur, running, stop_id>>
     ELSE /\ queue /= <<>>
          /\ queue' = Tail(queue)
          /\ cur' = Head(queue)
          /\ pc' = "dispatch"
          /\ UNCHANGED <<running, stop_id>>
  /\ last_ff' = NoFastForward
  /\ last_scan' = NoScan
  /\ last_replaced' = NoReplaced
  /\ UNCHANGED <<last_time_ms, elapsed_ms, timers, now, posted, post_vars, last_proc,
                 hlog, called, processed, fired_reqs, ilog, scans, script_vars, requestor_vars>>

LoopGetScansOnSentinel ==
  /\ pc = "get"
  /\ IF ~running
     THEN /\ pc' = "stopped"
          /\ UNCHANGED <<queue, cur, running, stop_id>>
     ELSE /\ queue /= <<>>
          /\ queue' = Tail(queue)
          /\ IF Head(queue).type = "None"
             THEN /\ running' = FALSE
                  /\ pc' = "scan"
                  /\ stop_id' = Head(queue).id
                  /\ cur' = cur
             ELSE /\ cur' = Head(queue)
                  /\ pc' = "dispatch"
                  /\ UNCHANGED <<running, stop_id>>
  /\ last_ff' = NoFastForward
  /\ last_scan' = NoScan
  /\ last_replaced' = NoReplaced
  /\ UNCHANGED <<last_time_ms, elapsed_ms, timers, now, posted, post_vars, last_proc,
                 hlog, called, processed, fired_reqs, ilog, scans, script_vars, requestor_vars>>

\* while self._running: event = self._queue.get(...) returns an event;
\* None stops the loop at once (break), without the scan
LoopGet ==
  /\ pc = "get"
  /\ IF ~running
     THEN /\ pc' = "stopped"
          /\ UNCHANGED <<queue, cur, running, stop_id>>
     ELSE /\ queue /= <<>>
          /\ queue' = Tail(queue)
          /\ IF Head(queue).type = "None"
             THEN /\ running' = FALSE
                  /\ pc' = "stopped"
                  /\ stop_id' = Head(queue).id
                  /\ cur' = cur
             ELSE /\ cur' = Head(queue)
                  /\ pc' = "dispatch"
                  /\ UNCHANGED <<running, stop_id>>
  /\ last_ff' = NoFastForward
  /\ last_scan' = NoScan
  /\ last_replaced' = NoReplaced
  /\ UNCHANGED <<last_time_ms, elapsed_ms, timers, now, posted, post_vars, last_proc,
                 hlog, called, processed, fired_reqs, ilog, scans, script_vars, requestor_vars>>

LoopTimeoutSkipsScan(limit) ==
  /\ pc = "get"
  /\ running
  /\ queue = <<>>
  /\ now + DequeueTimeoutMs <= limit
  /\ now' = now + DequeueTimeoutMs
  /\ cur' = Tag(NoEvent, "none", -1)
  /\ pc' = "get"
  /\ last_ff' = NoFastForward
  /\ last_scan' = NoScan
  /\ last_replaced' = NoReplaced
  /\ UNCHANGED <<queue, last_time_ms, elapsed_ms, timers, running, posted, post_vars,
                 last_proc, hlog, called, processed, fired_reqs, ilog, stop_id, scans, script_vars,
                 requestor_vars>>

\* the get times out after 0.1 s with nothing in the queue (queue.Empty)
LoopTimeoutUntil(limit) ==
  /\ pc = "get"
  /\ running
  /\ queue = <<>>
  /\ now + DequeueTimeoutMs <= limit
  /\ now' = now + DequeueTimeoutMs
  /\ cur' = Tag(NoEvent, "none", -1)
  /\ pc' = "scan"
  /\ last_ff' = NoFastForward
  /\ last_scan' = NoScan
  /\ last_replaced' = NoReplaced
  /\ UNCHANGED <<queue, last_time_ms, elapsed_ms, timers, running, posted, post_vars,
                 last_proc, hlog, called, processed, fired_reqs, ilog, stop_id, scans, script_vars,
                 requestor_vars>>

LoopTimeout == LoopTimeoutUntil(TimeLimit)

HandleStartTimerAndFire ==
  /\ pc = "dispatch"
  /\ cur.type = "StartTimerEvent"
  /\ LET clk == UpdateClocking(elapsed_ms, last_time_ms, now)
         ts == UpsertTimer(timers, clk.elapsed, cur)
         idx == FindTimer(ts, cur.callback, cur.context)
     IN  /\ elapsed_ms' = clk.elapsed
         /\ last_time_ms' = clk.last
         /\ timers' = IF cur.expiry_ms = 0 THEN DeleteAt(ts, idx) ELSE ts
         /\ fired_reqs' = IF cur.expiry_ms = 0 THEN Append(fired_reqs, cur.id)
                          ELSE fired_reqs
  /\ last_proc' = [last_proc EXCEPT ![<<cur.callback, cur.context>>] = cur.id]
  /\ processed' = processed \cup {cur.id}
  /\ pc' = "scan"
  /\ last_replaced' =
       Replaced(timers, UpdateClocking(elapsed_ms, last_time_ms, now).elapsed, cur)
  /\ UNCHANGED <<queue, running, now, cur, posted, post_vars, hlog, called, ilog,
                 last_scan, last_ff, stop_id, scans, script_vars, requestor_vars>>

\* if isinstance(event, StartTimerEvent): self._handle_start_timer(event)
HandleStartTimer ==
  /\ pc = "dispatch"
  /\ cur.type = "StartTimerEvent"
  /\ LET clk == UpdateClocking(elapsed_ms, last_time_ms, now)
     IN  /\ elapsed_ms' = clk.elapsed
         /\ last_time_ms' = clk.last
         /\ timers' = UpsertTimer(timers, clk.elapsed, cur)
  /\ last_proc' = [last_proc EXCEPT ![<<cur.callback, cur.context>>] = cur.id]
  /\ last_replaced' =
       Replaced(timers, UpdateClocking(elapsed_ms, last_time_ms, now).elapsed, cur)
  /\ processed' = processed \cup {cur.id}
  /\ pc' = "scan"
  /\ UNCHANGED <<queue, running, now, cur, posted, post_vars, hlog, called, fired_reqs, ilog,
                 last_scan, last_ff, stop_id, scans, script_vars, requestor_vars>>

\* app_event_handler calls event.callback(event.context) for these events
CallsCallback(ev) == ev.type \in {"RunWorkEvent", "TimerDoneEvent"}

\* event.callback(event.context), for the event with this id
Invocation(ev) == [id |-> ev.id, callback |-> ev.callback, context |-> ev.context]

HandlerBeginAny ==
  /\ pc = "dispatch"
  /\ pc' = "handler"
  /\ hlog' = Append(hlog, [poster |-> cur.poster, id |-> cur.id])
  /\ ilog' = ilog \cup {[thread |-> LoopThread, kind |-> "handler", during |-> {}]}
  /\ UNCHANGED <<queue, last_time_ms, elapsed_ms, timers, running, now, cur, posted,
                 post_vars, last_proc, called, processed, fired_reqs, last_scan,
                 last_ff, stop_id, last_replaced, scans, script_vars, requestor_vars>>

\* else: event_handler(event) is entered
HandlerBegin ==
  /\ pc = "dispatch"
  /\ cur.type /= "StartTimerEvent"
  /\ pc' = "handler"
  /\ hlog' = Append(hlog, [poster |-> cur.poster, id |-> cur.id])
  /\ ilog' = ilog \cup {[thread |-> LoopThread, kind |-> "handler", during |-> {}]}
  /\ UNCHANGED <<queue, last_time_ms, elapsed_ms, timers, running, now, cur, posted,
                 post_vars, last_proc, called, processed, fired_reqs, last_scan,
                 last_ff, stop_id, last_replaced, scans, script_vars, requestor_vars>>


HandlerEndCallsAny ==
  /\ pc = "handler"
  /\ processed' = processed \cup {cur.id}
  /\ pc' = "scan"
  /\ called' = Append(called, Invocation(cur))
  /\ UNCHANGED <<queue, posted, last_time_ms, elapsed_ms, timers, fired_reqs, ilog,
                 last_ff, running, now, cur, post_vars, last_proc, hlog, last_scan,
                 stop_id, last_replaced, scans, script_vars, requestor_vars>>

HandlerEndRecursing ==
  /\ pc = "handler"
  /\ processed' = processed \cup {cur.id}
  /\ pc' = "scan"
  /\ LET posts == IF CallsCallback(cur) THEN CallbackPosts(cur.callback, cur.context)
                  ELSE <<>>
         clk == UpdateClocking(elapsed_ms, last_time_ms, now)
     IN  /\ timers' = UpsertAll(timers, clk.elapsed, posts, LoopThread, posted)
         /\ posted' = posted + Len(posts)
         /\ elapsed_ms' = IF posts = <<>> THEN elapsed_ms ELSE clk.elapsed
         /\ last_time_ms' = IF posts = <<>> THEN last_time_ms ELSE clk.last
  /\ called' = IF CallsCallback(cur) THEN Append(called, Invocation(cur)) ELSE called
  /\ UNCHANGED <<queue, fired_reqs, ilog, last_ff, running, now, cur, post_vars,
                 last_proc, hlog, last_scan, stop_id, last_replaced, scans, script_vars,
                 requestor_vars>>

\* app_event_handler(event) runs and returns
HandlerEnd ==
  /\ pc = "handler"
  /\ processed' = processed \cup {cur.id}
  /\ pc' = "scan"
  /\ IF CallsCallback(cur) /\ cur.callback = "fast_forward"
     THEN LET r == FastForward(timers, elapsed_ms, last_time_ms, now, queue, posted,
                               LoopThread, cur.expiry_ms)
          IN  /\ elapsed_ms' = r.elapsed
              /\ last_time_ms' = r.last
              /\ timers' = r.timers
              /\ queue' = r.queue
              /\ posted' = r.posted
              /\ fired_reqs' = fired_reqs \o Reqs(r.fired)
              /\ ilog' = ilog \cup TimerInvocations(r.fired, LoopThread, {LoopThread})
              /\ last_ff' = FastForwardRecord(r, LoopThread, now, elapsed_ms,
                                              last_time_ms, cur.expiry_ms)
     ELSE /\ queue' = IF CallsCallback(cur)
                      THEN PutAll(queue, CallbackPosts(cur.callback, cur.context),
                                  LoopThread, posted)
                      ELSE queue
          /\ posted' = IF CallsCallback(cur)
                       THEN posted + Len(CallbackPosts(cur.callback, cur.context))
                       ELSE posted
          /\ UNCHANGED <<last_time_ms, elapsed_ms, timers, fired_reqs, ilog, last_ff>>
  /\ called' = IF CallsCallback(cur) THEN Append(called, Invocation(cur)) ELSE called
  /\ UNCHANGED <<running, now, cur, post_vars, last_proc, hlog, last_scan, stop_id,
                 last_replaced, scans, script_vars, requestor_vars>>

\* self.process_timers() at the end of the iteration
LoopScan ==
  /\ pc = "scan"
  /\ LET r == ProcessTimers(timers, elapsed_ms, last_time_ms, now, queue, posted,
                            LoopThread)
     IN  /\ elapsed_ms' = r.elapsed
         /\ last_time_ms' = r.last
         /\ timers' = r.timers
         /\ queue' = r.queue
         /\ posted' = r.posted
         /\ fired_reqs' = fired_reqs \o Reqs(r.fired)
         /\ ilog' = ilog \cup TimerInvocations(r.fired, LoopThread, {})
         /\ last_scan' = ScanRecord(r, LoopThread, now, queue,
                                    CallsCallback(cur) /\ cur.callback = "fast_forward")
  /\ pc' = "get"
  /\ UNCHANGED <<running, now, cur, post_vars, last_proc, hlog, called, processed, last_ff,
                 stop_id, last_replaced, scans, script_vars, requestor_vars>>

\* wall time passes
TickUntil(limit) ==
  /\ now + DequeueTimeoutMs <= limit
  /\ now' = now + DequeueTimeoutMs
  /\ UNCHANGED <<queue, last_time_ms, elapsed_ms, timers, running, pc, cur, posted,
                 post_vars, last_proc, hlog, called, processed, fired_reqs, ilog, last_scan,
                 last_ff, stop_id, last_replaced, scans, script_vars, requestor_vars>>

Tick == TickUntil(TimeLimit)

-----------------------------------------------------------------------------
(* The timer facility used as the threading rule says: the application     *)
(* thread only puts requests in the queue, and the test hook               *)
(* fast_forward_clock_for_testing runs on the loop thread, as scheduled    *)
(* work.                                                                   *)

AppStartTimer ==
  \E e \in Expiries, k \in TimerIds : StartTimer(AppThread, e, k[1], k[2])

\* run_ota_process: platform.start_timer(expiry_ms=1000, callback=timer_callback,
\* context="Timer1")
AppStartTimer1 == StartTimer(AppThread, Timer1ExpiryMs, "timer_callback", "Timer1")

AppScheduleFastForward ==
  \E ms \in FastForwards : ScheduleWork(AppThread, "fast_forward", "none", ms)

LoopNext ==
  \/ LoopStart
  \/ LoopGet
  \/ LoopTimeout
  \/ HandleStartTimer
  \/ HandlerBegin
  \/ HandlerEnd
  \/ LoopScan

Next ==
  \/ AppStartTimer
  \/ AppStartTimer1
  \/ AppScheduleFastForward
  \/ LoopNext
  \/ Tick

Spec == Init /\ [][Next]_vars

-----------------------------------------------------------------------------
(* The event queue with two posting threads and the shutdown sentinel *)

AppScheduleWork == ScheduleWork(AppThread, "cb1", "ctx1", 0)

AppStartTimerNow == StartTimer(AppThread, 0, "cb1", "ctx1")

\* a timer that is due one dequeue timeout after the loop applies it
AppStartTimerLater == StartTimer(AppThread, DequeueTimeoutMs, "cb1", "ctx2")

AppShutdown == Shutdown(AppThread)

WorkerPostEvent ==
  \E ev \in {BlockReceivedEvent, TimerDoneEvent("cb2", "ctx2")} :
    PostEvent(WorkerThread, ev)

\* run_event_loop is called again on the same Platform after it returned
LoopRunAgain ==
  /\ pc = "stopped"
  /\ pc' = "init"
  /\ UNCHANGED <<queue, last_time_ms, elapsed_ms, timers, running, now, cur, posted,
                 post_vars, last_proc, hlog, called, processed, fired_reqs, ilog, last_scan,
                 last_ff, stop_id, last_replaced, scans, script_vars, requestor_vars>>

NextEvents ==
  \/ AppScheduleWork
  \/ AppStartTimerNow
  \/ AppStartTimerLater
  \/ AppShutdown
  \/ WorkerPostEvent
  \/ LoopNext
  \/ LoopRunAgain
  \/ Tick

SpecEvents == Init /\ [][NextEvents]_vars

\* The timers with little further traffic.  The loop thread keeps running:
\* it is started, a handler that was entered returns, and a blocking get returns
\* an event or times out.  The wall clock of the model stops at TimeLimit;
\* its last step to that horizon is the one of a get that times out, so that
\* the time the model lets pass is always followed by a scan.
TickLive == TickUntil(TimeLimit - DequeueTimeoutMs)

NextLive ==
  \/ AppStartTimer
  \/ AppScheduleWork
  \/ LoopNext
  \/ TickLive

SpecLive == Init /\ [][NextLive]_vars /\ WF_vars(LoopNext)

\* Shutdown of a loop whose handlers and callbacks return: the loop thread
\* keeps taking its steps
NextShutdown ==
  \/ AppScheduleWork
  \/ AppStartTimerNow
  \/ AppShutdown
  \/ LoopNext
  \/ Tick

SpecShutdown == Init /\ [][NextShutdown]_vars /\ WF_vars(LoopNext)

\* Posting from the loop thread: the work that the application schedules is
\* run_ota_process.timer_callback, which calls start_timer (post_event) while
\* the handler that invoked it is running
AppScheduleRearm == ScheduleWork(AppThread, "timer_callback", "Timer1", 0)

NextReentrant ==
  \/ AppScheduleRearm
  \/ AppScheduleWork
  \/ AppStartTimerLater
  \/ LoopNext
  \/ Tick

SpecReentrant == Init /\ [][NextReentrant]_vars

-----------------------------------------------------------------------------
(* The test hook called directly by the application thread, while the loop *)
(* thread runs: fast_forward_clock_for_testing calls process_timers on the *)
(* calling thread.                                                         *)

AppFastForward ==
  \E ms \in FastForwards :
    /\ app_posts[AppThread] < MaxPosts
    /\ app_posts' = [app_posts EXCEPT ![AppThread] = @ + 1]
    /\ LET r == FastForward(timers, elapsed_ms, last_time_ms, now, queue, posted,
                            AppThread, ms)
       IN  /\ elapsed_ms' = r.elapsed
           /\ last_time_ms' = r.last
           /\ timers' = r.timers
           /\ queue' = r.queue
           /\ posted' = r.posted
           /\ fired_reqs' = fired_reqs \o Reqs(r.fired)
           /\ ilog' = ilog \cup TimerInvocations(r.fired, AppThread, InHandler)
           /\ last_ff' = FastForwardRecord(r, AppThread, now, elapsed_ms,
                                           last_time_ms, ms)
    /\ UNCHANGED <<running, now, pc, cur, last_call, last_proc, hlog, called, processed,
                   last_scan, stop_id, last_replaced, scans, script_vars, requestor_vars>>

NextRace ==
  \/ AppStartTimer
  \/ AppScheduleWork
  \/ AppFastForward
  \/ LoopNext
  \/ Tick

SpecRace == Init /\ [][NextRace]_vars

-----------------------------------------------------------------------------
(* The same call with the statements of process_timers as steps: the       *)
(* thread that runs a scan can be preempted between the clock update, the  *)
(* visits of the for loop and the deletions, and nothing in the code keeps *)
(* another thread from running its own scan meanwhile.  scans[t] holds the *)
(* locals of the scan of thread t: the position of the list iterator and   *)
(* to_delete.                                                              *)

scan_frame == <<running, now, cur, last_call, last_proc, hlog, called, processed,
                last_scan, last_ff, stop_id, last_replaced, script_vars, requestor_vars>>

\* self.update_clocking(); to_delete = []
ScanBegin(t, num_ms) ==
  /\ scans[t].phase = "idle"
  /\ LET clk == UpdateClocking(elapsed_ms, last_time_ms, now)
     IN  /\ elapsed_ms' = clk.elapsed
         /\ last_time_ms' = clk.last
  /\ scans' = [scans EXCEPT ![t] = [phase |-> "iter", idx |-> 1, to_delete |-> <<>>,
                                    num_ms |-> num_ms]]
  /\ UNCHANGED <<timers, queue, posted, fired_reqs, ilog>>

\* one pass of: for idx, timer in enumerate(self._timers): if self._elapsed_ms
\* >= timer["deadline"]: timer["callback"](timer["context"]);
\* to_delete.append(idx)
ScanVisit(t) ==
  /\ scans[t].phase = "iter"
  /\ scans[t].idx <= Len(timers)
  /\ LET timer == timers[scans[t].idx]
         posts == CallbackPosts(timer.callback, timer.context)
     IN  IF IsExpired(timer, elapsed_ms)
         THEN /\ fired_reqs' = Append(fired_reqs, timer.req)
              /\ ilog' = ilog \cup TimerInvocations(<<timer>>, t,
                                                    IF t = LoopThread THEN {} ELSE InHandler)
              /\ queue' = PutAll(queue, posts, t, posted)
              /\ posted' = posted + Len(posts)
              /\ scans' = [scans EXCEPT ![t].idx = @ + 1,
                                        ![t].to_delete = Append(@, scans[t].idx)]
         ELSE /\ scans' = [scans EXCEPT ![t].idx = @ + 1]
              /\ UNCHANGED <<fired_reqs, ilog, queue, posted>>
  /\ UNCHANGED <<timers, elapsed_ms, last_time_ms>>

\* the list iterator is exhausted: the for loop over the list ends
ScanIterEnd(t) ==
  /\ scans[t].phase = "iter"
  /\ scans[t].idx > Len(timers)
  /\ scans' = [scans EXCEPT ![t].phase = "delete"]
  /\ UNCHANGED <<timers, elapsed_ms, last_time_ms, queue, posted, fired_reqs, ilog>>

\* one pass of: for idx in reversed(to_delete): del self._timers[idx]; an
\* index that is not in the list raises IndexError, which ends the call
ScanDelete(t) ==
  /\ scans[t].phase = "delete"
  /\ scans[t].to_delete /= <<>>
  /\ LET n == Len(scans[t].to_delete)
         idx == scans[t].to_delete[n]
     IN  IF idx \in DOMAIN timers
         THEN /\ timers' = DeleteAt(timers, idx)
              /\ scans' = [scans EXCEPT ![t].to_delete = SubSeq(@, 1, n - 1)]
         ELSE /\ timers' = timers
              /\ scans' = [scans EXCEPT ![t].phase = "IndexError"]
  /\ UNCHANGED <<elapsed_ms, last_time_ms, queue, posted, fired_reqs, ilog>>

\* process_timers returns
ScanReturns(t) ==
  /\ scans[t].phase = "delete"
  /\ scans[t].to_delete = <<>>
  /\ scans' = [scans EXCEPT ![t] = NoScanLocals]

\* self.process_timers() at the end of the iteration of the loop
LoopScanBegin ==
  /\ pc = "scan"
  /\ pc' = "scanning"
  /\ ScanBegin(LoopThread, 0)
  /\ UNCHANGED <<app_posts, scan_frame>>

LoopScanVisit ==
  /\ pc = "scanning"
  /\ ScanVisit(LoopThread)
  /\ UNCHANGED <<pc, app_posts, scan_frame>>

LoopScanIterEnd ==
  /\ pc = "scanning"
  /\ ScanIterEnd(LoopThread)
  /\ UNCHANGED <<pc, app_posts, scan_frame>>

LoopScanDelete ==
  /\ pc = "scanning"
  /\ ScanDelete(LoopThread)
  /\ UNCHANGED <<pc, app_posts, scan_frame>>

\* the scan returns to run_event_loop: while self._running
LoopScanReturns ==
  /\ pc = "scanning"
  /\ ScanReturns(LoopThread)
  /\ pc' = "get"
  /\ UNCHANGED <<timers, elapsed_ms, last_time_ms, queue, posted, fired_reqs, ilog,
                 app_posts, scan_frame>>

\* fast_forward_clock_for_testing(ms) called by the application thread
\* while the loop runs: self.process_timers()
AppFastForwardBegin ==
  \E ms \in FastForwards :
    /\ pc \notin {"init", "stopped"}
    /\ app_posts[AppThread] < MaxPosts
    /\ app_posts' = [app_posts EXCEPT ![AppThread] = @ + 1]
    /\ ScanBegin(AppThread, ms)
    /\ UNCHANGED <<pc, scan_frame>>

AppFastForwardVisit ==
  /\ ScanVisit(AppThread)
  /\ UNCHANGED <<pc, app_posts, scan_frame>>

AppFastForwardIterEnd ==
  /\ ScanIterEnd(AppThread)
  /\ UNCHANGED <<pc, app_posts, scan_frame>>

AppFastForwardDelete ==
  /\ ScanDelete(AppThread)
  /\ UNCHANGED <<pc, app_posts, scan_frame>>

\* process_timers has returned: self._elapsed_ms += num_ms;
\* self._last_time_ms = now_ms
AppFastForwardReturns ==
  /\ ScanReturns(AppThread)
  /\ elapsed_ms' = elapsed_ms + scans[AppThread].num_ms
  /\ last_time_ms' = now
  /\ UNCHANGED <<timers, queue, posted, fired_reqs, ilog, pc, app_posts, scan_frame>>

LoopStepwise ==
  \/ LoopStart
  \/ LoopGet
  \/ LoopTimeout
  \/ HandleStartTimer
  \/ LoopScanBegin
  \/ LoopScanVisit
  \/ LoopScanIterEnd
  \/ LoopScanDelete
  \/ LoopScanReturns

NextScans ==
  \/ AppStartTimer
  \/ AppFastForwardBegin
  \/ AppFastForwardVisit
  \/ AppFastForwardIterEnd
  \/ AppFastForwardDelete
  \/ AppFastForwardReturns
  \/ LoopStepwise
  \/ Tick

SpecScans == Init /\ [][NextScans]_vars

-----------------------------------------------------------------------------
(* The replacement scenario: a test thread starts a timer with identity    *)
(* (cb1, ctx1) twice, then fast-forwards twice, each time as work          *)
(* scheduled on the loop thread, and counts the callback's invocations     *)
(* after the scan that follows each fast-forward.  The test runs its steps *)
(* back to back: the wall clock advances by at most ScenarioMaxTicks       *)
(* dequeue timeouts meanwhile.                                             *)

Scenario == [first |-> 1000, second |-> 5000, ff1 |-> 1500, ff2 |-> 4000]

ScenarioLimit == WallStart + ScenarioMaxTicks * DequeueTimeoutMs

TestPost(ev) ==
  /\ Post(AppThread, ev)
  /\ UNCHANGED <<loop_vars, app_posts, requestor_vars>>

TestStartFirst ==
  /\ tpc = 0
  /\ TestPost(StartTimerEvent(Scenario.first, "cb1", "ctx1"))
  /\ tpc' = 1
  /\ obs' = obs

\* "before it fires": the callback has not been invoked yet
TestStartSecond ==
  /\ tpc = 1
  /\ fired_reqs = <<>>
  /\ TestPost(StartTimerEvent(Scenario.second, "cb1", "ctx1"))
  /\ tpc' = 2
  /\ obs' = obs

TestFastForward ==
  /\ tpc \in {2, 4}
  /\ TestPost(RunWorkEvent("fast_forward", "none",
                           IF tpc = 2 THEN Scenario.ff1 ELSE Scenario.ff2))
  /\ tpc' = tpc + 1
  /\ obs' = Append(obs, [work |-> posted, fired |-> -1])

\* the scheduled fast-forward has run and the loop has finished the
\* iteration, scan included: the test reads the number of invocations
TestObserve ==
  /\ tpc \in {3, 5}
  /\ obs[Len(obs)].work \in processed
  /\ pc = "get"
  /\ obs' = [obs EXCEPT ![Len(obs)].fired = Len(fired_reqs)]
  /\ tpc' = tpc + 1
  /\ UNCHANGED <<platform_vars, requestor_vars>>

ScenarioLoopNext ==
  \/ LoopStart
  \/ LoopGet
  \/ LoopTimeoutUntil(ScenarioLimit)
  \/ HandleStartTimer
  \/ HandlerBegin
  \/ HandlerEnd
  \/ LoopScan

NextScenario ==
  \/ TestStartFirst
  \/ TestStartSecond
  \/ TestFastForward
  \/ TestObserve
  \/ ScenarioLoopNext
  \/ TickUntil(ScenarioLimit)

SpecScenario == Init /\ [][NextScenario]_vars

-----------------------------------------------------------------------------
(* The requestor state machine: OtaRequestor and the call-ins it inherits  *)
(* from OtaRequestorInterface, called by a thread t.  The driver is        *)
(* OtaRequestorDriver, whose methods do nothing; a call-in's record lists  *)
(* the driver methods it called and the lines it printed.                  *)

SEND_QUERY_IMAGE_REQUEST == 2   \* RequestorWorkItem.SEND_QUERY_IMAGE_REQUEST
ProviderNodeId == 1234          \* on_trigger_immediate_query: node_id = 1234

\* a call of a method of the driver, with its work item or node id
DriverCall(method, arg) == [method |-> method, arg |-> arg]

Threads == {LoopThread, AppThread}

\* run_ota_process: main_thread.name = "app" sets an attribute of the
\* function threading.main_thread
SetMainThreadName ==
  /\ fn_attr["main_thread"] = "unset"
  /\ fn_attr' = [fn_attr EXCEPT !["main_thread"] = AppThread]
  /\ UNCHANGED <<state, rlog, ota_context, platform_vars, script_vars>>

\* ensure_proper_thread, run by thread t: current_thread.name reads the
\* attribute name of the function threading.current_thread (the function is
\* not called), which raises AttributeError when the attribute is not set
EnsureProperThread(attrs, t) ==
  IF attrs["current_thread"] = "unset" THEN "AttributeError"
  ELSE IF attrs["current_thread"] /= LoopThread THEN "RuntimeError"
  ELSE "none"

\* the record of one call: what it was, what it raised or returned (<<>> for
\* None), the driver methods it called and the lines it printed
CallRecord(name, t, after, raised, returned, driver, printed, ctx_after) ==
  [callin |-> name, thread |-> t, state_before |-> state, state_after |-> after,
   raised |-> raised, returned |-> returned, driver |-> driver, printed |-> printed,
   context_before |-> ota_context, context_after |-> ctx_after]

CallIn(name, t, after, raised, driver, printed) ==
  /\ Len(rlog) < MaxCalls
  /\ state' = after
  /\ rlog' = Append(rlog, CallRecord(name, t, after, raised, <<>>, driver, printed,
                                     ota_context))
  /\ UNCHANGED <<fn_attr, ota_context, platform_vars, script_vars>>

\* class OtaRequestor: STATE_IDLE = 0 ... STATE_ESTABLISHING_BDX_CONNECTION = 8
DeclaredStates == 0..8

STATE_WAITING_FOR_NEXT_QUERY == 2

StateAfterQueryFailed(name, s) ==
  IF name = "on_trigger_immediate_query" /\ s = STATE_IDLE
  THEN STATE_ESTABLISHING_PROVIDER_CONNECTION
  ELSE IF name = "on_query_image_failed" THEN STATE_WAITING_FOR_NEXT_QUERY
  ELSE s

\* _state after a call made in state s, whether the call returns or raises:
\* the only assignment to _state outside __init__ is the one of
\* on_trigger_immediate_query
StateAfter(name, s) ==
  IF name = "on_trigger_immediate_query" /\ s = STATE_IDLE
  THEN STATE_ESTABLISHING_PROVIDER_CONNECTION
  ELSE s

OnTriggerUnguarded(t) ==
  CallIn("on_trigger_immediate_query", t, STATE_ESTABLISHING_PROVIDER_CONNECTION,
         "none", <<DriverCall("establish_provider_session", ProviderNodeId)>>,
         <<"on_trigger_immediate_query">>)

\* OtaRequestor.on_trigger_immediate_query
OnTriggerImmediateQuery(t) ==
  IF state /= STATE_IDLE
  THEN CallIn("on_trigger_immediate_query", t, state, "none", <<>>,
              <<"on_trigger_immediate_query",
                "ERROR: request to trigger immediate query when not idle!">>)
  ELSE CallIn("on_trigger_immediate_query", t,
              StateAfter("on_trigger_immediate_query", state),
              "none", <<DriverCall("establish_provider_session", ProviderNodeId)>>,
              <<"on_trigger_immediate_query">>)

\* OtaRequestor.on_provider_session_established
OnProviderSessionEstablished(t) ==
  LET check == EnsureProperThread(fn_attr, t)
  IN  IF check /= "none"
      THEN CallIn("on_provider_session_established", t, state, check, <<>>,
                  <<"on_provider_session_established">>)
      ELSE IF state /= STATE_ESTABLISHING_PROVIDER_CONNECTION
      THEN CallIn("on_provider_session_established", t, state, "none", <<>>,
                  <<"on_provider_session_established",
                    "ERROR: Got unexpected session establishment call-in!">>)
      ELSE CallIn("on_provider_session_established", t, state, "none",
                  <<DriverCall("schedule_requestor_work", SEND_QUERY_IMAGE_REQUEST)>>,
                  <<"on_provider_session_established">>)

\* OtaRequestor.on_query_image_response
OnQueryImageResponse(t) ==
  CallIn("on_query_image_response", t, state, EnsureProperThread(fn_attr, t), <<>>,
         <<"on_query_image_response">>)

\* the call-ins whose body is pass: OtaRequestor.on_query_image_failed and
\* those inherited from OtaRequestorInterface
PassCallIns ==
  {"on_query_image_failed", "on_provider_session_error", "on_cancel_ongoing_ota",
   "cancel_ongoing_ota", "on_ota_applied"}

PassCallIn(name, t) == CallIn(name, t, StateAfter(name, state), "none", <<>>, <<>>)

\* OtaRequestorInterface.Initialize run by thread t; status and loaded are
\* what the driver's load_stored_ota_context returns and what it leaves in
\* the context it was given.  Reading self._ota_context raises
\* AttributeError, before the driver is called, when the object has none.
InitializeWith(t, status, loaded) ==
  IF ota_context = <<>>
  THEN CallIn("Initialize", t, state, "AttributeError", <<>>, <<>>)
  ELSE LET failed == status /= NO_ERROR
           ctx == IF failed THEN <<OtaContext>> ELSE <<loaded>>
           driver == <<DriverCall("load_stored_ota_context", 0)>>
                       \o (IF failed THEN <<DriverCall("clear_stored_ota_context", 0)>>
                                     ELSE <<>>)
       IN  /\ Len(rlog) < MaxCalls
           /\ rlog' = Append(rlog, CallRecord("Initialize", t, state, "none", <<status>>,
                                              driver, <<>>, ctx))
           /\ ota_context' = ctx
           /\ UNCHANGED <<state, fn_attr, platform_vars, script_vars>>

Initialize ==
  \E t \in Threads, status \in Status :
    \E loaded \in {ota_context[k] : k \in DOMAIN ota_context} \cup {OngoingContext} :
      InitializeWith(t, status, loaded)

TriggerImmediateQuery == \E t \in Threads : OnTriggerImmediateQuery(t)

ProviderSessionEstablished == \E t \in Threads : OnProviderSessionEstablished(t)

QueryImageResponse == \E t \in Threads : OnQueryImageResponse(t)

OtherCallIn == \E t \in Threads, name \in PassCallIns : PassCallIn(name, t)

NextRequestor ==
  \/ SetMainThreadName
  \/ Initialize
  \/ TriggerImmediateQuery
  \/ ProviderSessionEstablished
  \/ QueryImageResponse
  \/ OtherCallIn

SpecRequestor == Init /\ [][NextRequestor]_vars

\* an object of the class OtaRequestorInterface itself: Initialize, and the
\* call-ins, which all have the body pass
InterfaceCallIn ==
  \E t \in Threads, name \in PassCallIns \cup {"on_trigger_immediate_query"} :
    CallIn(name, t, state, "none", <<>>, <<>>)

NextInterface ==
  \/ Initialize
  \/ InterfaceCallIn

SpecInterface == InitInterface /\ [][NextInterface]_vars

-----------------------------------------------------------------------------
(* Claims about the timer registry, checked under Spec *)

Range(f) == {f[i] : i \in DOMAIN f}

NoDuplicates(f) == \A i, j \in DOMAIN f : i /= j => f[i] /= f[j]

Identity(timer) == <<timer.callback, timer.context>>

\* C2: the registry never holds two pending entries with the same
\* (callback, context) identity, and when the loop applies a start-timer
\* request whose identity is pending, the entry is overwritten with the new
\* deadline and the registry does not grow.
C2_OnePendingTimerPerIdentity ==
  /\ [](\A i, j \in DOMAIN timers :
          i /= j => Identity(timers[i]) /= Identity(timers[j]))
  /\ [][(pc = "dispatch" /\ pc' = "scan" /\ cur.type = "StartTimerEvent"
         /\ FindTimer(timers, cur.callback, cur.context) /= 0)
        => LET idx == FindTimer(timers, cur.callback, cur.context)
           IN  /\ Len(timers') = Len(timers)
               /\ Identity(timers'[idx]) = <<cur.callback, cur.context>>
               /\ timers'[idx].deadline = elapsed_ms' + cur.expiry_ms
               /\ timers'[idx].req = cur.id]_vars

\* two requests were applied, none has fired, and one entry is pending: the
\* second request replaced the entry of the first
C2_Witness ==
  /\ pc = "scan"
  /\ cur.type = "StartTimerEvent"
  /\ Cardinality(processed) = 2
  /\ hlog = <<>>
  /\ fired_reqs = <<>>
  /\ Len(timers) = 1
  /\ timers[1].req = cur.id

AllFireRecords == Range(last_scan.fired) \cup Range(last_ff.fired)

\* C3 as stated: every callback invocation belongs to the most recent
\* start_timer call made for its identity, also while that call's request is
\* still in the queue.
C3_Original == \A f \in AllFireRecords : f.req = f.latest_call

\* C3 as amended: every callback invocation belongs to the most recent
\* request of its identity that the loop has applied, and no request leads to
\* more than one invocation.
C3_LatestAppliedRequestFiresOnce ==
  /\ \A f \in AllFireRecords : f.req = f.latest_proc
  /\ NoDuplicates(fired_reqs)

\* two requests were applied and the registry is empty after one invocation,
\* that of the second request: the first was replaced and never fired
C3_Witness ==
  /\ pc = "get"
  /\ hlog = <<>>
  /\ Cardinality(processed) = 2
  /\ Len(fired_reqs) = 1
  /\ timers = <<>>
  /\ \E a \in processed : a < fired_reqs[1]
  /\ \E f \in Range(last_scan.fired) : f.req = fired_reqs[1] /\ f.req = f.latest_call

SameEntries(fired, entries) ==
  /\ Len(fired) = Len(entries)
  /\ \A i \in DOMAIN fired :
       /\ fired[i].req = entries[i].req
       /\ fired[i].callback = entries[i].callback
       /\ fired[i].context = entries[i].context

ScanFiresExpired(before, e, fired, after) ==
  /\ SameEntries(fired, SelectSeq(before, LAMBDA x : x.deadline <= e))
  /\ after = SelectSeq(before, LAMBDA x : x.deadline > e)

\* C4: a scan invokes the callback of every entry with deadline <= elapsed_ms
\* exactly once, with its context, the entry is gone from the registry when
\* the scan returns, and no later scan invokes it again.
C4_ExpiredFireOnceAndAreRemoved ==
  /\ last_scan.valid =>
       ScanFiresExpired(last_scan.before, last_scan.elapsed, last_scan.fired,
                        last_scan.after)
  /\ last_ff.valid =>
       ScanFiresExpired(last_ff.before, last_ff.flushed_at, last_ff.fired,
                        last_ff.after)
  /\ NoDuplicates(fired_reqs)
  /\ \A i \in DOMAIN timers : timers[i].req \notin Range(fired_reqs)

\* a scan fired two entries and kept a third
C4_Witness ==
  /\ last_scan.valid
  /\ Len(last_scan.fired) = 2
  /\ Len(last_scan.after) = 1
  /\ pc = "get"

FiredByFastForwardAndScan(x) ==
  \E f \in Range(last_ff.fired) \cup Range(last_scan.fired) : f.req = x.req

FastForwardThenScan == last_ff.valid /\ last_scan.valid /\ last_scan.after_ff

Window == last_ff.elapsed_before + last_ff.num_ms

\* C6 as stated: the fast-forward and the scan that follows it fire every
\* timer with deadline <= elapsed_ms before the call + ms, and no timer
\* with a deadline beyond that.
C6_Original ==
  FastForwardThenScan =>
    \A x \in Range(last_ff.before) :
      FiredByFastForwardAndScan(x) <=> x.deadline <= Window

\* C6 as amended: they fire every timer with deadline <= elapsed_ms before
\* the call + ms, and no timer with a deadline beyond that window extended by
\* the wall-clock time between the previous clock update and the scan.
C6_FastForwardWindow ==
  FastForwardThenScan =>
    \A x \in Range(last_ff.before) :
      /\ x.deadline <= Window => FiredByFastForwardAndScan(x)
      /\ FiredByFastForwardAndScan(x) =>
           x.deadline <= Window + (last_scan.at - last_ff.last_before)
      /\ ~FiredByFastForwardAndScan(x) => x \in Range(timers)

\* the jump made one timer due, which the following scan fired, and left
\* another one pending
C6_Witness ==
  /\ FastForwardThenScan
  /\ pc = "get"
  /\ last_ff.fired = <<>>
  /\ Len(last_scan.fired) = 1
  /\ Len(last_scan.after) = 1
  /\ last_scan.fired[1].deadline = Window

-----------------------------------------------------------------------------
(* Claims about the event queue and the shutdown sentinel, checked under   *)
(* SpecEvents.  Event ids are given in the order of the puts, so of two    *)
(* events posted by one thread the one posted first has the smaller id.    *)

\* C7: of two events posted by the same thread, the event handler is invoked
\* with the one posted first before the one posted second.
C7_HandlerSeesPosterOrder ==
  \A i, j \in DOMAIN hlog :
    (i < j /\ hlog[i].poster = hlog[j].poster) => hlog[i].id < hlog[j].id

\* the handler has seen two events of the application thread and, between
\* them, one of the worker thread
C7_Witness ==
  /\ Len(hlog) = 3
  /\ hlog[1].poster = AppThread
  /\ hlog[2].poster = WorkerThread
  /\ hlog[3].poster = AppThread

\* C8: the loop stops only by dequeuing the sentinel, and when it has
\* stopped every event put in the queue ahead of the sentinel has been given
\* to the handler or, for a start-timer request, applied to the registry.
C8_EventsAheadOfSentinelProcessed ==
  pc = "stopped" =>
    /\ stop_id >= 0
    /\ ~running
    /\ \A id \in 0..(stop_id - 1) : id \in processed

\* the loop stopped after a start-timer request and a handler event that
\* were ahead of the sentinel
C8_Witness ==
  /\ pc = "stopped"
  /\ stop_id = 2
  /\ Len(hlog) = 1
  /\ processed = {0, 1}

-----------------------------------------------------------------------------
(* Claim about the threads that run handlers, checked under SpecRace *)

\* C1: every invocation of the event handler or of a timer callback runs on
\* the loop thread, and none runs while another thread has an invocation in
\* progress.
C1_Original ==
  \A inv \in ilog :
    /\ inv.thread = LoopThread
    /\ inv.during \subseteq {LoopThread}

-----------------------------------------------------------------------------
(* Claim about the replacement scenario, checked under SpecScenario *)

\* C5: after the first fast-forward (1500 ms) and the scan that follows it
\* the callback has not been invoked; after the second (4000 ms) and its scan
\* it has been invoked exactly once, for the request with expiry 5000 ms.
C5_ReplacementScenario ==
  /\ \A i \in DOMAIN obs : (i = 1 /\ obs[i].fired /= -1) => obs[i].fired = 0
  /\ \A i \in DOMAIN obs : (i = 2 /\ obs[i].fired /= -1) => obs[i].fired = 1
  /\ tpc = 6 => /\ fired_reqs = <<1>>
                /\ timers = <<>>

\* the test thread has made both observations
C5_Witness ==
  /\ tpc = 6
  /\ obs[1].fired = 0
  /\ obs[2].fired = 1

-----------------------------------------------------------------------------
(* Claims about the requestor's call-ins, checked under SpecRequestor *)

ThreadChecked ==
  {"on_trigger_immediate_query", "on_provider_session_established",
   "on_query_image_response"}

\* C9: a state-mutating call-in made from a thread other than the loop
\* thread raises the thread-affinity error (RuntimeError), leaves the state
\* as it was and calls no driver method.
C9_Original ==
  \A i \in DOMAIN rlog :
    (rlog[i].callin \in ThreadChecked /\ rlog[i].thread /= LoopThread)
      => /\ rlog[i].raised = "RuntimeError"
         /\ rlog[i].state_after = rlog[i].state_before
         /\ rlog[i].driver = <<>>

\* C10: on_provider_session_established on the loop thread in a state other
\* than ESTABLISHING_PROVIDER_CONNECTION leaves the state as it was, calls
\* no driver method, prints the diagnostic and raises nothing.
C10_Original ==
  \A i \in DOMAIN rlog :
    (/\ rlog[i].callin = "on_provider_session_established"
     /\ rlog[i].thread = LoopThread
     /\ rlog[i].state_before /= STATE_ESTABLISHING_PROVIDER_CONNECTION)
      => /\ rlog[i].state_after = rlog[i].state_before
         /\ rlog[i].driver = <<>>
         /\ \E k \in DOMAIN rlog[i].printed :
              rlog[i].printed[k] = "ERROR: Got unexpected session establishment call-in!"
         /\ rlog[i].raised = "none"

\* the number of calls of a driver method in the record of a call
DriverCalls(rec, method) ==
  Cardinality({k \in DOMAIN rec.driver : rec.driver[k].method = method})

Printed(rec, line) == \E k \in DOMAIN rec.printed : rec.printed[k] = line

\* C11: on_trigger_immediate_query in IDLE moves the state to
\* ESTABLISHING_PROVIDER_CONNECTION and calls the driver's
\* establish_provider_session exactly once; in every other state it is
\* rejected with a logged error, the state stays as it was and
\* establish_provider_session is not called.
C11_TriggerGuardedByIdle ==
  \A i \in DOMAIN rlog :
    rlog[i].callin = "on_trigger_immediate_query"
      => IF rlog[i].state_before = STATE_IDLE
         THEN /\ rlog[i].state_after = STATE_ESTABLISHING_PROVIDER_CONNECTION
              /\ DriverCalls(rlog[i], "establish_provider_session") = 1
              /\ rlog[i].raised = "none"
         ELSE /\ rlog[i].state_after = rlog[i].state_before
              /\ DriverCalls(rlog[i], "establish_provider_session") = 0
              /\ Printed(rlog[i], "ERROR: request to trigger immediate query when not idle!")

C11_Witness ==
  \E i, j \in DOMAIN rlog :
    /\ i < j
    /\ rlog[i].callin = "on_trigger_immediate_query"
    /\ rlog[i].state_before = STATE_IDLE
    /\ rlog[i].state_after = STATE_ESTABLISHING_PROVIDER_CONNECTION
    /\ rlog[j].callin = "on_trigger_immediate_query"
    /\ rlog[j].state_before = STATE_ESTABLISHING_PROVIDER_CONNECTION
    /\ rlog[j].state_after = STATE_ESTABLISHING_PROVIDER_CONNECTION

\* C12: on_provider_session_established on the loop thread in
\* ESTABLISHING_PROVIDER_CONNECTION calls the driver's
\* schedule_requestor_work exactly once, with SEND_QUERY_IMAGE_REQUEST, and
\* raises nothing.
C12_Original ==
  \A i \in DOMAIN rlog :
    (/\ rlog[i].callin = "on_provider_session_established"
     /\ rlog[i].thread = LoopThread
     /\ rlog[i].state_before = STATE_ESTABLISHING_PROVIDER_CONNECTION)
      => /\ rlog[i].raised = "none"
         /\ DriverCalls(rlog[i], "schedule_requestor_work") = 1
         /\ \A k \in DOMAIN rlog[i].driver :
              rlog[i].driver[k].method = "schedule_requestor_work"
                => rlog[i].driver[k].arg = SEND_QUERY_IMAGE_REQUEST

\* C13: on_provider_session_error in ESTABLISHING_PROVIDER_CONNECTION does
\* not leave the state machine in that state: it goes to IDLE or to another
\* state.
C13_Original ==
  \A i \in DOMAIN rlog :
    (/\ rlog[i].callin = "on_provider_session_error"
     /\ rlog[i].state_before = STATE_ESTABLISHING_PROVIDER_CONNECTION)
      => rlog[i].state_after /= rlog[i].state_before

\* the names of the calls that can be made on the requestor
CallNames == ThreadChecked \cup PassCallIns \cup {"Initialize"}

\* the states that sequences of calls lead to from the states S
RECURSIVE StatesReachable(_)
StatesReachable(S) ==
  LET T == S \cup {StateAfter(name, s) : name \in CallNames, s \in S}
  IN  IF T = S THEN S ELSE StatesReachable(T)

\* C14: the state machine starts in IDLE and from every reachable state
\* some sequence of call-ins leads back to IDLE.
C14_Original ==
  /\ (rlog = <<>> => state = STATE_IDLE)
  /\ STATE_IDLE \in StatesReachable({state})

\* C15: after cancel_ongoing_ota or on_cancel_ongoing_ota the context is the
\* fresh default context (in_progress false, fields reset) and the state is
\* IDLE.
C15_Original ==
  \A i \in DOMAIN rlog :
    rlog[i].callin \in {"cancel_ongoing_ota", "on_cancel_ongoing_ota"}
      => /\ rlog[i].state_after = STATE_IDLE
         /\ rlog[i].context_after = <<OtaContext>>

\* C16: Initialize returns the status of the driver's
\* load_stored_ota_context; when that is not NO_ERROR it has called
\* clear_stored_ota_context exactly once and the context is the fresh
\* default one; when it is NO_ERROR it has not called
\* clear_stored_ota_context.
C16_Original ==
  \A i \in DOMAIN rlog :
    rlog[i].callin = "Initialize"
      => /\ rlog[i].raised = "none"
         /\ DriverCalls(rlog[i], "load_stored_ota_context") = 1
         /\ Len(rlog[i].returned) = 1
         /\ \A k \in DOMAIN rlog[i].returned :
              IF rlog[i].returned[k] /= NO_ERROR
              THEN /\ DriverCalls(rlog[i], "clear_stored_ota_context") = 1
                   /\ rlog[i].context_after = <<OtaContext>>
              ELSE DriverCalls(rlog[i], "clear_stored_ota_context") = 0

-----------------------------------------------------------------------------
(* Further claims about the scan, the loop state and the clock *)

NoneExpired(ts, e) == \A i \in DOMAIN ts : ts[i].deadline > e

\* C17: a process_timers scan that finds no entry with deadline <=
\* elapsed_ms (as refreshed by the scan) invokes no callback and leaves the
\* registry and the event queue as they were; it only refreshes elapsed_ms
\* and the wall-clock reference.  This holds for the scan of the loop and
\* for the one inside fast_forward_clock_for_testing.
C17_ScanWithoutExpiredIsNoOp ==
  /\ [][(pc = "scan" /\ pc' = "get" /\ NoneExpired(timers, elapsed_ms'))
          => /\ timers' = timers
             /\ queue' = queue
             /\ posted' = posted
             /\ fired_reqs' = fired_reqs
             /\ elapsed_ms' = elapsed_ms + (now - last_time_ms)
             /\ last_time_ms' = now
             /\ UNCHANGED <<running, now, cur>>]_vars
  /\ []((last_ff.valid /\ NoneExpired(last_ff.before, last_ff.flushed_at))
          => (last_ff.fired = <<>> /\ last_ff.after = last_ff.before))

C17_Witness ==
  /\ pc = "get"
  /\ last_scan.valid
  /\ last_scan.before /= <<>>
  /\ NoneExpired(last_scan.before, last_scan.elapsed)
  /\ last_scan.fired = <<>>
  /\ last_scan.after = last_scan.before
  /\ last_scan.elapsed > 0

\* C18: the loop is running from the start and as long as no shutdown
\* sentinel was dequeued; _running becomes false only in the step that
\* dequeues the sentinel; it never becomes true again, and
\* while it is false nothing is dequeued, handled, applied or fired, also
\* when run_event_loop is called again.
C18_StoppedIsFinal ==
  /\ [](stop_id < 0 => running)
  /\ [][/\ running' => running
        /\ (running /\ ~running')
             => /\ pc = "get"
                /\ queue /= <<>>
                /\ Head(queue).type = "None"
                /\ queue' = Tail(queue)
        /\ ~running
             => /\ Len(queue') >= Len(queue)
                /\ SubSeq(queue', 1, Len(queue)) = queue
                /\ UNCHANGED <<processed, hlog, timers, fired_reqs, elapsed_ms, cur>>
                /\ pc' \in {"stopped", "init", "get"}]_vars

C18_Witness ==
  /\ pc = "get"
  /\ ~running
  /\ queue /= <<>>
  /\ stop_id >= 0

\* C19: elapsed_ms never decreases, whatever the order of clock updates,
\* scans, start-timer handling and fast-forwards, with a wall clock that
\* does not go backwards.
C19_ElapsedNeverDecreases == [][now' >= now => elapsed_ms' >= elapsed_ms]_vars

C19_Witness ==
  /\ last_ff.valid
  /\ last_ff.elapsed_before > 0
  /\ last_ff.elapsed_after > last_ff.elapsed_before
  /\ elapsed_ms > last_ff.elapsed_after
  /\ timers /= <<>>

NewlyFired == {fired_reqs'[k] : k \in (Len(fired_reqs) + 1)..Len(fired_reqs')}

\* C20: handling a start-timer request invokes no callback, whatever its
\* expiry; a callback is invoked only by a process_timers scan, for an
\* entry that was in the registry before the scan began.
C20_FiresOnlyInScan ==
  [][/\ (pc = "dispatch" /\ cur.type = "StartTimerEvent") => fired_reqs' = fired_reqs
     /\ fired_reqs' /= fired_reqs
          => /\ \/ pc = "scan"
                \/ pc = "handler" /\ CallsCallback(cur) /\ cur.callback = "fast_forward"
             /\ \A r \in NewlyFired : \E i \in DOMAIN timers : timers[i].req = r]_vars

C20_Witness ==
  /\ pc = "get"
  /\ cur.type = "StartTimerEvent"
  /\ cur.expiry_ms = 0
  /\ last_scan.valid
  /\ \E k \in DOMAIN last_scan.fired : last_scan.fired[k].req = cur.id

-----------------------------------------------------------------------------
(* Claims about the dispatch of events and the end of the loop, checked    *)
(* under SpecEvents                                                        *)

\* C21: the event handler is never given a start-timer request: the loop
\* applies each dequeued StartTimerEvent to the registry itself, and gives
\* every other dequeued event, which is never the sentinel, to the handler
\* exactly once, on the loop thread, before it goes on to the scan.
C21_StartTimerNeverReachesHandler ==
  /\ [](pc = "dispatch" => cur.type \notin {"None", "Empty"})
  /\ [](\A inv \in ilog : inv.kind = "handler" => inv.thread = LoopThread)
  /\ [](NoDuplicates(hlog))
  /\ [][/\ hlog' /= hlog
            => /\ pc = "dispatch"
               /\ cur.type /= "StartTimerEvent"
               /\ hlog' = Append(hlog, [poster |-> cur.poster, id |-> cur.id])
               /\ pc' = "handler"
        /\ (pc = "dispatch" /\ pc' /= "dispatch")
            => IF cur.type = "StartTimerEvent"
               THEN /\ hlog' = hlog
                    /\ pc' = "scan"
                    /\ \E i \in DOMAIN timers' : timers'[i].req = cur.id
               ELSE /\ hlog' /= hlog
                    /\ timers' = timers
        /\ (pc = "handler" /\ pc' /= "handler") => pc' = "scan"]_vars

\* the loop has applied a start-timer request and given two events to the
\* handler
C21_Witness ==
  /\ pc = "get"
  /\ Len(hlog) = 2
  /\ Cardinality(processed) = 3
  /\ \E id \in processed : \A k \in DOMAIN hlog : hlog[k].id /= id

-----------------------------------------------------------------------------
(* Claim about the threads that touch the platform's state, checked under  *)
(* SpecRace.  A step of a thread other than the loop thread is one that    *)
(* counts a call in app_posts.                                             *)

\* C22: a step of a thread other than the loop thread changes nothing of the
\* platform but the event queue: the timer registry and the elapsed clock
\* are as they were.
C22_Original ==
  [][app_posts' /= app_posts
       => UNCHANGED <<timers, elapsed_ms, last_time_ms>>]_vars

-----------------------------------------------------------------------------
(* Claims about the end of the loop and the scan of each iteration,        *)
(* checked under SpecEvents                                                *)

Due(timer) == timer.deadline <= elapsed_ms + (now - last_time_ms)

\* C23: the step that dequeues the sentinel stops the loop at once, without
\* a scan: the registry and the clock are as they were; and from then on no
\* handler and no timer callback is invoked, no scan runs, and nothing more
\* is dequeued or applied.
C23_SentinelStopsAtOnce ==
  /\ [][(running /\ ~running')
          => /\ pc' = "stopped"
             /\ ~last_scan'.valid
             /\ UNCHANGED <<timers, elapsed_ms, last_time_ms, hlog, fired_reqs,
                            processed, ilog>>]_vars
  /\ [][~running
          => /\ UNCHANGED <<timers, elapsed_ms, hlog, fired_reqs, processed, ilog>>
             /\ ~last_scan'.valid
             /\ Len(queue') >= Len(queue)
             /\ SubSeq(queue', 1, Len(queue)) = queue]_vars

\* the loop has stopped with a due timer in the registry, and with a
\* start-timer request and another event still in the queue
C23_Witness ==
  /\ pc = "stopped"
  /\ ~running
  /\ \E i \in DOMAIN timers : Due(timers[i])
  /\ \E k \in DOMAIN queue : queue[k].type = "StartTimerEvent"
  /\ \E k \in DOMAIN queue : queue[k].type \notin {"StartTimerEvent", "None"}

\* C24: an iteration that dequeues an event other than the sentinel, or
\* whose dequeue times out, runs one scan and only one: no scan has run
\* while the iteration is at the dispatch, in the handler or before its
\* scan, the dispatch and the handler lead to the scan, a timed-out dequeue
\* leads to the scan, and the next dequeue is reached from the scan only.
C24_OneScanPerIteration ==
  /\ [](pc \in {"dispatch", "handler", "scan"} => ~last_scan.valid)
  /\ [][/\ (last_scan'.valid /\ last_scan' /= last_scan)
             => (pc = "scan" /\ pc' = "get")
        /\ (pc = "get" /\ pc' /= pc /\ running')
             => /\ pc' \in {"dispatch", "scan"}
                /\ ~last_scan'.valid
                /\ pc' = "scan" <=> cur'.type = "Empty"
        /\ (pc = "get" /\ last_scan.valid /\ ~last_scan'.valid) => pc' /= pc
        /\ (pc = "dispatch" /\ pc' /= pc) => pc' \in {"handler", "scan"}
        /\ (pc = "handler" /\ pc' /= pc) => pc' = "scan"
        /\ (pc = "scan" /\ pc' /= pc)
             => /\ pc' = "get"
                /\ last_scan'.valid
                /\ last_scan'.thread = LoopThread
                /\ last_scan'.before = timers
        /\ (pc' = "get" /\ pc /= "get") => pc \in {"init", "scan"}]_vars

\* the scan of an iteration whose dequeue timed out has run, after
\* iterations that handled an event and applied a start-timer request
C24_Witness ==
  /\ pc = "get"
  /\ cur.type = "Empty"
  /\ last_scan.valid
  /\ hlog /= <<>>
  /\ \E id \in processed : \A k \in DOMAIN hlog : hlog[k].id /= id

-----------------------------------------------------------------------------
(* Liveness of the timers, checked under SpecLive.  The wall clock of the  *)
(* model advances up to TimeLimit; a timer is due before that horizon when *)
(* its deadline is at most what elapsed_ms will be there.                  *)

PendingBeforeHorizon(k) ==
  \E i \in DOMAIN timers :
    /\ Identity(timers[i]) = k
    /\ timers[i].deadline <= elapsed_ms + (TimeLimit - last_time_ms)

\* C25: a timer in the registry that is due before the horizon does not
\* stay pending: eventually a scan fires it (or a request that the loop
\* applies moves its deadline beyond the horizon), also when nothing more
\* is posted, because the scans of the timed-out dequeues go on.  An entry
\* leaves the registry only when a scan fires it.
C25_PendingTimersEventuallyFire ==
  /\ \A k \in TimerIds : PendingBeforeHorizon(k) ~> ~PendingBeforeHorizon(k)
  /\ [][\A i \in DOMAIN timers :
          (\A j \in DOMAIN timers' : timers'[j].req /= timers[i].req)
            => \/ timers[i].req \in NewlyFired
               \/ (pc = "dispatch" /\ Identity(timers[i]) = <<cur.callback, cur.context>>)]_vars

\* a scan that followed a timed-out dequeue, with nothing in the queue,
\* fired a timer
C25_Witness ==
  /\ pc = "get"
  /\ cur.type = "Empty"
  /\ queue = <<>>
  /\ last_scan.valid
  /\ last_scan.fired /= <<>>

-----------------------------------------------------------------------------
(* Termination, checked under SpecShutdown *)

SentinelQueued == \E k \in DOMAIN queue : queue[k].type = "None"

\* C26: once shutdown() has put the sentinel in the queue the loop
\* eventually stops; it stops only at the dequeue, so an iteration that is
\* at its dispatch, in its handler or before its scan when the sentinel is
\* posted is completed first.
C26_ShutdownTerminates ==
  /\ SentinelQueued ~> (pc = "stopped" /\ ~running)
  /\ [](pc \in {"dispatch", "handler", "scan"} => running)
  /\ [][(running /\ ~running')
          => /\ pc = "get"
             /\ pc' = "stopped"
             /\ cur.id >= 0 => cur.id \in processed]_vars

\* the sentinel is posted while a handler is in progress
C26_Witness ==
  /\ pc = "handler"
  /\ SentinelQueued
  /\ running

-----------------------------------------------------------------------------
(* Further claims about the timer registry, checked under Spec *)

\* the position in the list s of the entry armed by request r
PositionOf(s, r) == CHOOSE i \in DOMAIN s : s[i].req = r

\* a scan of the registry `before` at elapsed time e that invoked `fired`
\* and left `after`
RemovesExactlyExpired(before, e, fired, after) ==
  /\ \A x \in Range(before) :
       IF x.deadline <= e
       THEN /\ \E f \in Range(fired) : f.req = x.req
            /\ x \notin Range(after)
       ELSE /\ x \in Range(after)
            /\ \A f \in Range(fired) : f.req /= x.req
  /\ Range(after) \subseteq Range(before)
  /\ Len(after) + Len(fired) = Len(before)
  /\ \A i, j \in DOMAIN after :
       i < j => PositionOf(before, after[i].req) < PositionOf(before, after[j].req)

\* C27: a scan invokes the callbacks of all the entries that are expired in
\* the registry as it was before the scan, and the registry after the scan
\* is the one before it without exactly those entries: every other entry is
\* kept, with its deadline and in its relative order.
C27_ScanRemovesExactlyExpired ==
  /\ last_scan.valid =>
       RemovesExactlyExpired(last_scan.before, last_scan.elapsed, last_scan.fired,
                             last_scan.after)
  /\ last_ff.valid =>
       RemovesExactlyExpired(last_ff.before, last_ff.flushed_at, last_ff.fired,
                             last_ff.after)

\* a scan of three entries fired the first and the third and kept the second
C27_Witness ==
  /\ pc = "get"
  /\ last_scan.valid
  /\ Len(last_scan.before) = 3
  /\ Len(last_scan.fired) = 2
  /\ last_scan.fired[1].req = last_scan.before[1].req
  /\ last_scan.fired[2].req = last_scan.before[3].req
  /\ last_scan.after = <<last_scan.before[2]>>
  /\ timers = last_scan.after

WithIdentity(ts, callback, context) ==
  {i \in DOMAIN ts : Identity(ts[i]) = <<callback, context>>}

\* C28: the step in which the loop applies a start-timer request refreshes
\* the clock and writes an entry with deadline = refreshed elapsed_ms +
\* expiry_ms; when an entry of the same identity is pending the new entry
\* takes its position and the others are as they were, otherwise the new
\* entry is appended after the others.
C28_DeadlineFromRefreshedClock ==
  [][(pc = "dispatch" /\ cur.type = "StartTimerEvent" /\ pc' = "scan")
      => LET e == elapsed_ms + (now - last_time_ms)
             m == WithIdentity(timers, cur.callback, cur.context)
             new == IF m = {} THEN Len(timers) + 1 ELSE SetMin(m)
         IN  /\ elapsed_ms' = e
             /\ last_time_ms' = now
             /\ Len(timers') = Len(timers) + (IF m = {} THEN 1 ELSE 0)
             /\ \A j \in DOMAIN timers : j /= new => timers'[j] = timers[j]
             /\ timers'[new].deadline = e + cur.expiry_ms
             /\ Identity(timers'[new]) = <<cur.callback, cur.context>>
             /\ timers'[new].req = cur.id]_vars

\* the loop has applied, after wall time has passed, a request whose entry
\* took the first position of two, where an entry of its identity was
C28_Witness ==
  /\ pc = "scan"
  /\ cur.type = "StartTimerEvent"
  /\ Len(timers) = 2
  /\ timers[1].req = cur.id
  /\ timers[2].req < cur.id
  /\ elapsed_ms > 0
  /\ last_time_ms = now
  /\ timers[1].deadline = elapsed_ms + cur.expiry_ms

\* C29: when the loop has applied a request that overwrote a pending entry,
\* the overwritten entry is gone and has not fired; a scan invokes a
\* callback only for the request applied last for its identity, and only
\* when the deadline of that request is reached, whether it is earlier or
\* later than the one it replaced and whether or not the replaced deadline
\* had been reached.
C29_ReplacedDeadlineIsLost ==
  /\ last_replaced.valid
       => /\ \A i \in DOMAIN timers : timers[i].req /= last_replaced.req
          /\ last_replaced.req \notin Range(fired_reqs)
          /\ \A f \in AllFireRecords : f.req /= last_replaced.req
  /\ \A f \in AllFireRecords : f.req = f.latest_proc
  /\ \A f \in Range(last_scan.fired) : f.deadline <= last_scan.elapsed
  /\ \A f \in Range(last_ff.fired) : f.deadline <= last_ff.flushed_at

\* the loop overwrote an entry whose deadline had been reached and not yet
\* scanned with a later deadline, and the scan of that iteration fired
\* nothing
C29_Witness ==
  /\ pc = "get"
  /\ last_replaced.valid
  /\ last_replaced.due
  /\ last_scan.valid
  /\ last_scan.fired = <<>>
  /\ \E i \in DOMAIN timers :
       /\ timers[i].req = cur.id
       /\ timers[i].deadline > last_replaced.deadline

-----------------------------------------------------------------------------
IsRearm(ev) ==
  /\ ev.type = "StartTimerEvent"
  /\ ev.expiry_ms = RearmExpiryMs
  /\ ev.callback = "timer_callback"
  /\ ev.context = "TimerN"

Rearming(fired) == SelectSeq(fired, LAMBDA f : f.callback = "timer_callback")

\* what one scan did with the entries it fired: each callback was visited
\* once, no entry of a fired identity is left or put back in the registry,
\* and the registry lost nothing else
FiredOnceAndGone(before, fired, after) ==
  /\ \A i, j \in DOMAIN fired :
       i /= j => <<fired[i].callback, fired[i].context>>
                   /= <<fired[j].callback, fired[j].context>>
  /\ \A f \in Range(fired) : WithIdentity(after, f.callback, f.context) = {}
  /\ Len(after) = Len(before) - Len(fired)

\* C30: a scan visits each expired callback once and leaves no entry of its
\* identity in the registry; a callback that calls start_timer while it fires
\* only appends its request to the queue.  When the loop applies that request
\* the entry is written to the registry and is still pending after the scan
\* of that iteration, and no request leads to more than one invocation.
C30_SelfRearmIsQueuedAndFiresOnce ==
  /\ [](/\ NoDuplicates(fired_reqs)
        /\ last_ff.valid => FiredOnceAndGone(last_ff.before, last_ff.fired, last_ff.after)
        /\ last_scan.valid =>
             /\ FiredOnceAndGone(last_scan.before, last_scan.fired, last_scan.after)
             /\ LET old == Len(last_scan.queue_before)
                     new == SubSeq(last_scan.queue_after, old + 1,
                                   Len(last_scan.queue_after))
                 IN  /\ SubSeq(last_scan.queue_after, 1, old) = last_scan.queue_before
                     /\ Len(new) = Len(Rearming(last_scan.fired))
                     /\ \A i \in DOMAIN new :
                          /\ IsRearm(new[i])
                          /\ new[i].poster = last_scan.thread
                          /\ \A f \in Range(last_scan.fired) : new[i].id > f.req)
  /\ [][/\ (pc = "dispatch" /\ pc' = "scan" /\ IsRearm(cur))
             => \E i \in DOMAIN timers' :
                  /\ timers'[i].req = cur.id
                  /\ timers'[i].deadline = elapsed_ms' + RearmExpiryMs
         /\ (pc = "scan" /\ pc' = "get" /\ IsRearm(cur))
             => /\ \E j \in DOMAIN timers' : timers'[j].req = cur.id
                /\ cur.id \notin Range(fired_reqs')]_vars

\* the callback of a timer it had armed itself has fired in the scan of this
\* iteration: its entry is gone, and its next request is the last of the
\* queue, not yet in the registry
C30_Witness ==
  /\ pc = "get"
  /\ last_scan.valid
  /\ \E f \in Range(last_scan.fired) :
       /\ f.callback = "timer_callback"
       /\ f.context = "TimerN"
       /\ queue /= <<>>
       /\ IsRearm(queue[Len(queue)])
       /\ queue[Len(queue)].poster = LoopThread
       /\ queue[Len(queue)].id > f.req
  /\ WithIdentity(timers, "timer_callback", "TimerN") = {}

-----------------------------------------------------------------------------
(* Posting from inside a handler, checked under SpecReentrant *)

\* the events a step added at the tail of the queue
Added(q, qn) == SubSeq(qn, Len(q) + 1, Len(qn))

\* C31: a handler invocation that posts leaves the event at the tail of the
\* queue and returns: no handler invocation is nested in it, the posted
\* request is not applied to the registry and is not counted as processed.
\* The loop takes the posted event in a later iteration, when every event
\* posted before it has been processed.
C31_PostedInHandlerRunsLater ==
  [][/\ (pc = "handler" /\ pc' = "scan")
         => /\ Len(queue') >= Len(queue)
            /\ SubSeq(queue', 1, Len(queue)) = queue
            /\ Len(Added(queue, queue'))
                 = (IF cur.type = "RunWorkEvent" /\ cur.callback = "timer_callback"
                    THEN 1 ELSE 0)
            /\ \A k \in DOMAIN Added(queue, queue') :
                 /\ IsRearm(Added(queue, queue')[k])
                 /\ Added(queue, queue')[k].poster = LoopThread
                 /\ Added(queue, queue')[k].id \notin processed'
                 /\ Added(queue, queue')[k].id > cur.id
            /\ hlog' = hlog
            /\ timers' = timers
     /\ (pc = "get" /\ pc' = "dispatch")
         => /\ cur'.id \notin processed
            /\ \A id \in 0..(cur'.id - 1) : id \in processed]_vars

\* the loop dequeues the request that a handler invocation posted, after it
\* has handled an event of the application that was queued behind the
\* posting work when the request was posted
C31_Witness ==
  /\ pc = "dispatch"
  /\ IsRearm(cur)
  /\ cur.poster = LoopThread
  /\ \E i, j \in DOMAIN hlog :
       /\ j = i + 1
       /\ hlog[i].id = cur.id - 2
       /\ hlog[j].id = cur.id - 1
       /\ hlog[j].poster = AppThread

-----------------------------------------------------------------------------
\* C32: a fast-forward scans once at the elapsed time refreshed from the
\* wall clock, before the jump, and fires exactly the entries due then; it
\* then adds exactly num_ms and takes the current wall time as reference.
\* The entries that the jump makes due stay in the registry; the scan that
\* follows adds only the wall time since the fast-forward and fires them.
C32_FlushThenJumpThenRebase ==
  /\ last_ff.valid =>
       /\ last_ff.flushed_at = last_ff.elapsed_before + (last_ff.at - last_ff.last_before)
       /\ ScanFiresExpired(last_ff.before, last_ff.flushed_at, last_ff.fired,
                           last_ff.after)
       /\ last_ff.elapsed_after = last_ff.flushed_at + last_ff.num_ms
       /\ last_ff.last_after = last_ff.at
       /\ \A x \in Range(last_ff.before) :
            last_ff.flushed_at < x.deadline => x \in Range(last_ff.after)
  /\ FastForwardThenScan =>
       /\ last_scan.before = last_ff.after
       /\ last_scan.elapsed
            = last_ff.elapsed_after + (last_scan.at - last_ff.last_after)
       /\ \A x \in Range(last_ff.after) :
            x.deadline <= last_scan.elapsed
              => \E f \in Range(last_scan.fired) : f.req = x.req

\* wall time passed before the fast-forward and between it and the scan: the
\* flush fired a timer that was due, the jump made another one due, and
\* the scan fired that one
C32_Witness ==
  /\ FastForwardThenScan
  /\ pc = "get"
  /\ last_ff.at > last_ff.last_before
  /\ last_scan.at > last_ff.at
  /\ last_ff.fired /= <<>>
  /\ \E x \in Range(last_ff.after) :
       /\ x.deadline > last_ff.flushed_at
       /\ x.deadline <= last_ff.elapsed_after
       /\ \E f \in Range(last_scan.fired) : f.req = x.req

-----------------------------------------------------------------------------
(* Scheduled work and events the handler does not know, checked under      *)
(* SpecEvents                                                              *)

CalledIds == [i \in DOMAIN called |-> called[i].id]

\* C33: each call of a non-loop thread puts one event in the queue.  The
\* handler invocation for a run-work event invokes its callback with its
\* context, once; callbacks are invoked in the order in which their events
\* were posted; the handler invocation for a BlockReceivedEvent invokes
\* nothing, changes nothing of the platform, and the loop goes on to the scan
\* of the iteration.
C33_WorkRunsOnceUnknownEventsDropped ==
  /\ [](NoDuplicates(CalledIds))
  /\ [](\A i, j \in DOMAIN called : i < j => called[i].id < called[j].id)
  /\ [](\A i \in DOMAIN called : called[i].id \in processed
                                   /\ \E k \in DOMAIN hlog : hlog[k].id = called[i].id)
  /\ [][/\ app_posts' /= app_posts
            => /\ Len(queue') = Len(queue) + 1
               /\ SubSeq(queue', 1, Len(queue)) = queue
               /\ called' = called
        /\ called' /= called => (pc = "handler" /\ pc' = "scan")
        /\ (pc = "handler" /\ pc' = "scan" /\ cur.type = "RunWorkEvent")
            => called' = Append(called, [id |-> cur.id, callback |-> cur.callback,
                                         context |-> cur.context])
        /\ (pc = "handler" /\ pc' = "scan" /\ cur.type = "BlockReceivedEvent")
            => /\ running'
               /\ UNCHANGED <<called, queue, timers, fired_reqs, elapsed_ms>>]_vars

\* the handler was given work, then a BlockReceivedEvent of the worker
\* thread, then work again: it invoked the callback for the first and the
\* third event only, and the loop is at its next dequeue
C33_Witness ==
  /\ pc = "get"
  /\ running
  /\ Len(hlog) = 3
  /\ Len(called) = 2
  /\ hlog[2].poster = WorkerThread
  /\ called[1].id = hlog[1].id
  /\ called[2].id = hlog[3].id
  /\ called[1].callback = "cb1"
  /\ called[1].context = "ctx1"

-----------------------------------------------------------------------------
(* Claims about the requestor's state, checked under SpecRequestor *)

\* the state that the code of a call-in tests for
ExpectedState ==
  [name \in {"on_trigger_immediate_query", "on_provider_session_established"} |->
     IF name = "on_trigger_immediate_query" THEN STATE_IDLE
     ELSE STATE_ESTABLISHING_PROVIDER_CONNECTION]

InExpectedState(rec) ==
  /\ rec.callin \in DOMAIN ExpectedState
  /\ rec.state_before = ExpectedState[rec.callin]

\* C34: a call-in changes the state only when it is made in the state it
\* expects; made in any other state it leaves the state as it was and
\* raises no exception.
C34_Original ==
  \A i \in DOMAIN rlog :
    rlog[i].callin /= "Initialize"
      => /\ rlog[i].state_after /= rlog[i].state_before => InExpectedState(rlog[i])
         /\ ~InExpectedState(rlog[i])
              => /\ rlog[i].state_after = rlog[i].state_before
                 /\ rlog[i].raised = "none"

-----------------------------------------------------------------------------
(* Further claims about the timers, checked under Spec *)

\* C35: no callback is invoked early.  In the step that invokes a callback
\* the entry of the invoked request is in the registry, and the deadline
\* stored in it is at most the elapsed time that the scan computes from the
\* wall clock, and at most elapsed_ms after the step.
C35_NeverFiresEarly ==
  [][\A r \in NewlyFired :
       \E i \in DOMAIN timers :
         /\ timers[i].req = r
         /\ timers[i].deadline <= elapsed_ms + (now - last_time_ms)
         /\ timers[i].deadline <= elapsed_ms'
         /\ timers[i].req = last_proc[Identity(timers[i])]]_vars

\* a scan fired a timer with a deadline in the future of its arming and kept
\* one that was not due yet
C35_Witness ==
  /\ pc = "get"
  /\ last_scan.valid
  /\ \E f \in Range(last_scan.fired) :
       /\ f.deadline > 0
       /\ f.deadline <= last_scan.elapsed
  /\ \E x \in Range(last_scan.after) : x.deadline > last_scan.elapsed
  /\ last_scan.after = timers

-----------------------------------------------------------------------------
(* Claim about two scans that run at the same time, checked under          *)
(* SpecScans                                                               *)

\* C36: with fast_forward_clock_for_testing running on another thread while
\* the loop scans, no request leads to more than one invocation, an entry
\* leaves the registry only when its callback has been invoked or its
\* identity is started again, and no deletion raises IndexError.
C36_Original ==
  /\ [](NoDuplicates(fired_reqs))
  /\ [](\A t \in DOMAIN scans : scans[t].phase /= "IndexError")
  /\ [][\A i \in DOMAIN timers :
          (\A j \in DOMAIN timers' : timers'[j].req /= timers[i].req)
            => \/ timers[i].req \in Range(fired_reqs)
               \/ (pc = "dispatch"
                     /\ Identity(timers[i]) = <<cur.callback, cur.context>>)]_vars

-----------------------------------------------------------------------------
\* C37: the step in which the loop applies a start-timer request leaves every
\* entry of another identity, also one with the same callback and another
\* context, at its position with its deadline and request; and of two
\* entries with the same callback a scan fires the one that is due and keeps
\* the other as it is.
C37_OtherIdentitiesUntouched ==
  /\ [][(pc = "dispatch" /\ cur.type = "StartTimerEvent" /\ pc' = "scan")
          => \A j \in DOMAIN timers :
               Identity(timers[j]) /= <<cur.callback, cur.context>>
                 => /\ j \in DOMAIN timers'
                    /\ timers'[j] = timers[j]]_vars
  /\ [](last_scan.valid
          => \A x, y \in Range(last_scan.before) :
               (/\ x.callback = y.callback
                /\ x.context /= y.context
                /\ x.deadline <= last_scan.elapsed
                /\ y.deadline > last_scan.elapsed)
                 => /\ \E f \in Range(last_scan.fired) : f.req = x.req
                    /\ \A f \in Range(last_scan.fired) : f.req /= y.req
                    /\ y \in Range(last_scan.after))

\* two timers with the same callback were pending; the loop applied a
\* request that replaced the entry of one context, and the scan of that
\* iteration fired the entry of the other context and kept the new one
C37_Witness ==
  /\ pc = "get"
  /\ cur.type = "StartTimerEvent"
  /\ last_replaced.valid
  /\ last_scan.valid
  /\ Len(last_scan.before) = 2
  /\ \E f \in Range(last_scan.fired) :
       /\ f.callback = cur.callback
       /\ f.context /= cur.context
       /\ f.req < last_replaced.req
  /\ \E i \in DOMAIN timers : timers[i].req = cur.id

-----------------------------------------------------------------------------
(* Claim about the delivery of timer expiry, checked under SpecEvents *)

QueuedIds == {queue[k].id : k \in DOMAIN queue}

\* C38: a timer callback is invoked by the scan itself, not by the handler:
\* the step that invokes it is the scan, gives nothing to the handler, and
\* puts no TimerDoneEvent in the queue.  No TimerDoneEvent in the queue was
\* put there by the loop thread, and a scan whose callbacks post nothing
\* leaves the queue as it was, with the events that are still to be handled.
C38_ExpiryBypassesQueue ==
  /\ [](\A k \in DOMAIN queue :
          queue[k].type = "TimerDoneEvent" => queue[k].poster /= LoopThread)
  /\ [](last_scan.valid
          => /\ \A k \in DOMAIN last_scan.queue_after :
                  last_scan.queue_after[k].type = "TimerDoneEvent"
                    => k <= Len(last_scan.queue_before)
             /\ (\A f \in Range(last_scan.fired) :
                   CallbackPosts(f.callback, f.context) = <<>>)
                  => last_scan.queue_after = last_scan.queue_before)
  /\ [][fired_reqs' /= fired_reqs
          => /\ pc = "scan"
             /\ pc' = "get"
             /\ hlog' = hlog
             /\ called' = called
             /\ NewlyFired \cap QueuedIds = {}]_vars

\* a scan invoked a timer callback while an event that had been posted
\* before was still in the queue, where the scan left it
C38_Witness ==
  /\ pc = "get"
  /\ last_scan.valid
  /\ last_scan.fired /= <<>>
  /\ queue /= <<>>
  /\ queue = last_scan.queue_before
  /\ queue[1].type = "RunWorkEvent"
  /\ queue[1].id \notin processed

-----------------------------------------------------------------------------
(* Claim about the states of the requestor, checked under SpecRequestor *)

StatesUsed == {STATE_IDLE, STATE_ESTABLISHING_PROVIDER_CONNECTION}

\* C39: the state is always IDLE or ESTABLISHING_PROVIDER_CONNECTION; the
\* only step that changes it is on_trigger_immediate_query called in IDLE;
\* and no sequence of calls leads from the current state to one of the other
\* seven declared states.
C39_OnlyTwoStatesReachable ==
  /\ [](state \in StatesUsed)
  /\ [](StatesReachable({state}) \cap (DeclaredStates \ StatesUsed) = {})
  /\ [](\A i \in DOMAIN rlog :
          /\ rlog[i].state_after \in StatesUsed
          /\ rlog[i].state_after /= rlog[i].state_before
               => rlog[i].callin = "on_trigger_immediate_query")
  /\ [][state' /= state
          => /\ state = STATE_IDLE
             /\ state' = STATE_ESTABLISHING_PROVIDER_CONNECTION
             /\ Len(rlog') = Len(rlog) + 1
             /\ rlog'[Len(rlog')].callin = "on_trigger_immediate_query"]_vars

\* after on_trigger_immediate_query two more call-ins were made, neither of
\* them on_trigger_immediate_query, and the state is the one it set
C39_Witness ==
  /\ Len(rlog) = 3
  /\ rlog[1].callin = "on_trigger_immediate_query"
  /\ rlog[2].callin = "on_provider_session_established"
  /\ rlog[3].callin = "on_query_image_failed"
  /\ state = STATE_ESTABLISHING_PROVIDER_CONNECTION
  /\ rlog[3].state_after = state

====
